---- MODULE Spec2Model ----
(***************************************************************************)
(* A model of flowtoy's LocalRunner (src/flowtoy/runner.py): the concurrent *)
(* DAG scheduler, its worker tasks and the shared status / flows state.     *)
(* Strings of the configuration that the code scans (input templates) are   *)
(* sequences of one-character strings.                                      *)
(***************************************************************************)
EXTENDS Integers, Sequences, FiniteSets, TLC

\* --------------------------------------------------------------------------
\* Bounds of the model
\* --------------------------------------------------------------------------
\* largest value the wall clock (time.time()) takes in a run
MaxClock == 1
\* largest runner.max_workers a configuration sets
MaxWorkers == 2

\* --------------------------------------------------------------------------
\* Python values
\* --------------------------------------------------------------------------
\* None is the empty tuple; a present value v is the one-element tuple <<v>>
None == << >>
Some(v) == << v >>
IsNone(x) == x = None
Val(x) == x[1]

Min(a, b) == IF a < b THEN a ELSE b

\* the characters of str.lower() that the model's strings use
Lower(s) ==
    CASE s = "SKIP" -> "skip"
      [] s = "Skip" -> "skip"
      [] s = "CONTINUE" -> "continue"
      [] s = "Fail" -> "fail"
      [] s = "A" -> "a"
      [] OTHER -> s

\* --------------------------------------------------------------------------
\* Dependency inference: dep_re = re.compile(r"flows\.([A-Za-z0-9_]+)\.")
\* --------------------------------------------------------------------------
IdentChars ==
    { "a", "b", "c", "d", "e", "f", "g", "h", "i", "j", "k", "l", "m", "n", "o",
      "p", "q", "r", "s", "t", "u", "v", "w", "x", "y", "z",
      "A", "B", "C", "D", "E", "F", "G", "H", "I", "J", "K", "L", "M", "N", "O",
      "P", "Q", "R", "S", "T", "U", "V", "W", "X", "Y", "Z",
      "0", "1", "2", "3", "4", "5", "6", "7", "8", "9", "_" }

FlowsPrefix == << "f", "l", "o", "w", "s", "." >>

\* the characters of a sequence joined into one string
RECURSIVE Join(_)
Join(cs) == IF cs = << >> THEN "" ELSE Head(cs) \o Join(Tail(cs))

\* index of the last character of the longest run of identifier characters
\* that starts at j (j - 1 when t[j] is no identifier character)
RECURSIVE RunEnd(_, _)
RunEnd(t, j) ==
    IF j <= Len(t) /\ t[j] \in IdentChars THEN RunEnd(t, j + 1) ELSE j - 1

\* dep_re matches at position i of t: the literal "flows.", a greedy
\* non-empty identifier and a "."
MatchesAt(t, i) ==
    /\ i + 5 <= Len(t)
    /\ SubSeq(t, i, i + 5) = FlowsPrefix
    /\ RunEnd(t, i + 6) >= i + 6
    /\ RunEnd(t, i + 6) + 1 <= Len(t)
    /\ t[RunEnd(t, i + 6) + 1] = "."

\* the group(1) of every match of dep_re.finditer(t), scanning from i;
\* matches do not overlap
RECURSIVE Finditer(_, _)
Finditer(t, i) ==
    IF i > Len(t) THEN {}
    ELSE IF MatchesAt(t, i)
         THEN { Join(SubSeq(t, i + 6, RunEnd(t, i + 6))) }
                  \cup Finditer(t, RunEnd(t, i + 6) + 2)
         ELSE Finditer(t, i + 1)


\* --------------------------------------------------------------------------
\* Template rendering (jinja2 with StrictUndefined) of "{{ root.X.Y }}"
\* --------------------------------------------------------------------------
\* first index >= i of t that holds no blank
RECURSIVE SkipBlanks(_, _)
SkipBlanks(t, i) ==
    IF i <= Len(t) /\ t[i] = " " THEN SkipBlanks(t, i + 1) ELSE i

\* index of the last character of the dotted path that starts at i
RECURSIVE PathEnd(_, _)
PathEnd(t, i) ==
    IF i <= Len(t) /\ (t[i] \in IdentChars \/ t[i] = ".")
    THEN PathEnd(t, i + 1) ELSE i - 1

\* a dotted path split at its dots into a sequence of names
RECURSIVE SplitPath(_, _)
SplitPath(cs, acc) ==
    IF cs = << >> THEN << Join(acc) >>
    ELSE IF Head(cs) = "." THEN << Join(acc) >> \o SplitPath(Tail(cs), << >>)
    ELSE SplitPath(Tail(cs), Append(acc, Head(cs)))

\* the variable paths of the "{{ ... }}" expressions of template t, from i
RECURSIVE ExprPaths(_, _)
ExprPaths(t, i) ==
    IF i + 1 > Len(t) THEN {}
    ELSE IF t[i] = "{" /\ t[i + 1] = "{"
         THEN LET b == SkipBlanks(t, i + 2)
                  e == PathEnd(t, b)
              IN  (IF e >= b THEN { SplitPath(SubSeq(t, b, e), << >>) } ELSE {})
                      \cup ExprPaths(t, e + 1)
         ELSE ExprPaths(t, i + 1)

\* jinja2 resolves path p in the context {flows, sources}; ctx[root] maps a
\* name to the set of keys under it.  An undefined name raises UndefinedError.
PathDefined(p, ctx) ==
    /\ p[1] \in DOMAIN ctx
    /\ Len(p) >= 2 => p[2] \in DOMAIN ctx[p[1]]
    /\ Len(p) >= 3 => p[3] \in ctx[p[1]][p[2]]

\* render_template(template, context) returns (TRUE) or raises (FALSE)
render_template(t, ctx) == \A p \in ExprPaths(t, 1) : PathDefined(p, ctx)

\* --------------------------------------------------------------------------
\* Configurations
\* --------------------------------------------------------------------------
\* "" and "{{ flows.<n>.v }}" as character sequences
EmptyText == << >>
RefText(n) == << "{", "{", " ", "f", "l", "o", "w", "s", ".", n, ".", "v", " ", "}", "}" >>

\* input: {type: parameter, value: ""}
InEmpty == [type |-> "parameter", value |-> Some(EmptyText), template |-> None]
\* input: {type: parameter, value: "{{ flows.<n>.v }}"}
InParam(n) == [type |-> "parameter", value |-> Some(RefText(n)), template |-> None]
\* input: {type: filter, template: "{{ flows.<n>.v }}"}
InFilter(n) == [type |-> "filter", value |-> None, template |-> Some(RefText(n))]

\* one entry of a step's output list: {name: n, type: t}; the name is None
\* when the entry has no string under "name"
OutDecl(n, t) == [name |-> n, type |-> t]

\* output: [{name: v, type: json}]
OutV == << OutDecl(Some("v"), "json") >>

\* output: [{name: v, type: jmespath, ...}, {type: json}, {name: w, type: json},
\*          {name: v, type: json}]
OutMixed ==
    << OutDecl(Some("v"), "jmespath"), OutDecl(None, "json"),
       OutDecl(Some("w"), "json"), OutDecl(Some("v"), "json") >>

\* "ls" and "{{ sources.e.v }}" as character sequences
PlainText == << "l", "s" >>
MarkedText ==
    << "{", "{", " ", "s", "o", "u", "r", "c", "e", "s", ".", "e", ".", "v", " ", "}", "}" >>

\* one step of the flow list; its source is {type: process, configuration:
\* {command: "ls"}}
Step(n, d, i, e, o) ==
    [name |-> n, depends_on |-> d, input |-> i, on_error |-> e, output |-> o,
     source |-> "process", configuration |-> PlainText]

\* the step s with the source configuration {command: c}
WithConfiguration(s, c) == [s EXCEPT !.configuration = c]

\* the step s with the source {type: src}
WithSource(s, src) == [s EXCEPT !.source = src]

\* the steps a flow may declare for the names a, b and c
StepsA == { WithConfiguration(Step("a", {}, InEmpty, "fail", OutMixed), MarkedText) }
StepsB ==
    { Step("b", d, i, e, OutV) :
        d \in {{}, {"a"}}, i \in {InEmpty}, e \in {"", "skip", "continue"} }
    \cup { Step("b", {}, InParam(n), e, OutV) :
             n \in {"a", "A"}, e \in {"skip"} }
    \cup { WithSource(Step("b", {}, InEmpty, "", OutV), "nope") }
StepsC ==
    { Step("c", d, InEmpty, e, << >>) :
        d \in {{}, {"a"}, {"b"}, {"a", "b"}}, e \in {"", "skip", "continue"} }
    \cup { Step("c", d, InFilter("b"), e, << >>) :
             d \in {{}, {"a"}}, e \in {"", "skip", "continue"} }
    \cup { Step("c", d, InEmpty, "", << >>) : d \in {{"A", "zz"}, {"c"}} }
    \cup { Step("c", {"a"}, InEmpty, "bogus", << >>) }
    \cup { Step("c", {}, InParam("c"), "", << >>) }

\* a step without dependencies ignores its dependents' policies: keep one
\* on_error for it
Plain(s) == s.depends_on = {} /\ s.input = InEmpty => s.on_error \in {"", "fail"}

\* the flows: the empty flow, and the flows of three steps
Flows ==
    { << >> }
    \cup { << sa, sb, sc >> : sa \in StepsA,
                              sb \in { s \in StepsB : Plain(s) },
                              sc \in { s \in StepsC : Plain(s) } }

RunnerConfs == [on_error : {""}, max_workers : 1 .. MaxWorkers]


\* --------------------------------------------------------------------------
\* State
\* --------------------------------------------------------------------------
VARIABLES
    steps,           \* self.steps: the flow list of the configuration
    runner_conf,     \* config["runner"]: on_error and max_workers
    status,          \* self.status: RunStatus with its StepStatus map
    flows,           \* self.flows: step name -> keys of its output map
    now,             \* the last value time.time() returned
    pc,              \* position of the thread that executes run()
    raised,          \* the exception run() raised, or None
    deps,            \* run(): deps
    dependents,      \* run(): dependents
    in_degree,       \* run(): in_degree
    ready_q,         \* run(): ready_q
    futures,         \* run(): futures, each future named by its step
    error_occurred,  \* run(): error_occurred
    to_process,      \* run(): the futures of to_process not yet visited
    work_queue,      \* the executor's queue of submitted tasks no worker has taken
    task,            \* per step: position of its task() and its future's result
    submitted,       \* per step: number of submit_step calls
    api,             \* runner_api: position and locals of a GET /status handler
    connectors,      \* connectors: _connector_registry, _entry_points_discovered
    providers,       \* providers: _entry_point_providers, _entry_points_discovered
    updates,         \* self._lock and the calls of _update_step_status in progress
    lib              \* arguments and results of sanitize_meta and deep_merge calls

conf_vars == << steps, runner_conf >>
shared_vars == << status, flows, now >>
graph_vars == << deps, dependents, in_degree >>
loop_vars == << ready_q, futures, error_occurred, to_process >>
pool_vars == << work_queue, task, submitted >>
aux_vars == << api, connectors, providers, updates, lib >>
run_vars == << conf_vars, shared_vars, pc, raised, graph_vars, loop_vars, pool_vars >>
vars == << run_vars, aux_vars >>

\* name_to_step of run(); a later step of the same name replaces an earlier one
Names == { steps[i].name : i \in DOMAIN steps }
name_to_step ==
    [ n \in Names |->
        steps[CHOOSE i \in DOMAIN steps :
                /\ steps[i].name = n
                /\ \A j \in DOMAIN steps : steps[j].name = n => j <= i] ]

\* class StepStatus, as constructed
StepStatus(n) ==
    [name |-> n, state |-> "pending", started_at |-> None, ended_at |-> None,
     error |-> None]

\* class RunStatus, as constructed
RunStatus == [steps |-> << >>, started_at |-> None, ended_at |-> None]

\* _update_step_status(step_name, **fields) on the StepStatus map st: a step
\* that has no entry is left alone
update_step_status(st, n, fields) ==
    IF n \in DOMAIN st THEN [st EXCEPT ![n] = fields @@ @] ELSE st

\* the values a call of time.time() may return: the clock does not go back
TimeReads == { now, Min(now + 1, MaxClock) }

\* x or y of Python on strings
Or(x, y) == IF x = "" THEN y ELSE x

\* default_on_error of run()
default_on_error == Lower(Or(runner_conf.on_error, "fail"))

\* policy_of with a fault: the step's own on_error is not consulted
policy_of_runner_default(s) == default_on_error

\* policy_of with a fault: the policy is compared as written, not lowercased
policy_of_as_written(s) == Or(Or(s.on_error, runner_conf.on_error), "fail")

\* the policy run() computes for a step record
policy_of(s) == Lower(Or(Or(s.on_error, default_on_error), "fail"))

\* max_workers of run(): self._max_workers or min(4, active_count() + 3), with
\* at least one active thread
DefaultWorkers == 4
max_workers ==
    IF runner_conf.max_workers = 0 THEN DefaultWorkers ELSE runner_conf.max_workers

\* infer_deps with a fault: the input templates are not scanned
infer_deps_explicit(s) == s.depends_on

\* the dependency inference of run(): explicit depends_on and the names that
\* dep_re finds in input.value and input.template
infer_deps(s) ==
    s.depends_on
        \cup (IF IsNone(s.input.value) THEN {} ELSE Finditer(Val(s.input.value), 1))
        \cup (IF IsNone(s.input.template) THEN {}
              ELSE Finditer(Val(s.input.template), 1))

\* invalid_deps with a fault: names are compared without regard to case
invalid_deps_nocase ==
    LET missing(n) == { d \in infer_deps(name_to_step[n]) :
                          \A m \in Names : Lower(m) # Lower(d) }
    IN  [ n \in { m \in Names : missing(m) # {} } |-> missing(n) ]

\* invalid_deps of run(): step -> names of its deps that are no step
invalid_deps ==
    LET missing(n) == infer_deps(name_to_step[n]) \ Names
    IN  [ n \in { m \in Names : missing(m) # {} } |-> missing(n) ]

\* the sequences that enumerate a finite set once
Perms(S) ==
    { q \in [1 .. Cardinality(S) -> S] : \A i, j \in DOMAIN q : q[i] = q[j] => i = j }

\* --------------------------------------------------------------------------
\* The status API and the registries as loaded
\* --------------------------------------------------------------------------
\* the GET /status handler before a request: keys and todo are the iterator
\* over status.steps, outputs and fields the values read for the step at hand;
\* after_run tells whether run() had returned when the request arrived
ApiIdle ==
    [pc |-> "idle", keys |-> {}, todo |-> << >>, outputs |-> {}, fields |-> None,
     steps_info |-> << >>, response |-> None, after_run |-> FALSE]

\* the connector types that calls name and the constructors that callers
\* register at runtime
ConnectorTypes == {"x", "y", "z"}
RuntimeConstructors == {"r1", "r2"}

\* discover_entry_points() of connectors: the installed plugins x and z
connector_plugins == [ t \in {"x", "z"} |-> "plugin_" \o t ]

\* the module connectors as imported: an empty registry, nothing discovered;
\* registered holds for each type the constructor of the last
\* register_connector call, created the outcome of the last create_connector
\* with the constructor that was registered for its type at that call
ConnectorsLoaded ==
    [registry |-> << >>, discovered |-> FALSE, registered |-> << >>,
     created |-> None]

\* the provider types that calls name
ProviderTypes == {"process", "nope"}

\* the threads that call create_provider: the workers of the executor
Callers == 1 .. MaxWorkers

\* the module providers as imported: an empty plugin table, nothing
\* discovered, no discovery pass made; call holds each caller's position in
\* create_provider
ProvidersLoaded ==
    [table |-> {}, discovered |-> FALSE, passes |-> 0,
     call |-> [ t \in Callers |-> [pc |-> "idle", type |-> "", result |-> ""] ]]

\* the names and timestamps that direct calls of _update_step_status pass:
\* the step of the flow and a name that is no step
UpdateNames == {"a", "zz"}
UpdateTimes == 0 .. MaxClock

\* the state a caller passes: it names the thread and the call
state_label(t, ts) == "state_" \o ToString(t) \o "_" \o ToString(ts)

\* self._lock free (0) and no call of _update_step_status in progress
NoUpdates ==
    [lock |-> 0,
     call |-> [ t \in Callers |-> [pc |-> "idle", name |-> "", state |-> "",
                                   started_at |-> 0] ]]

\* no call of sanitize_meta or deep_merge has been made
NoCalls == [op |-> "none"]

\* a runner as constructed
InitRunner ==
    /\ status = RunStatus
    /\ flows = << >>
    /\ pc = "start"
    /\ raised = None
    /\ deps = << >>
    /\ dependents = << >>
    /\ in_degree = << >>
    /\ ready_q = << >>
    /\ futures = {}
    /\ error_occurred = FALSE
    /\ to_process = {}
    /\ work_queue = << >>
    /\ task = << >>
    /\ submitted = << >>

\* a runner as constructed, no request in service, the registries as imported
InitState ==
    /\ api = ApiIdle
    /\ connectors = ConnectorsLoaded
    /\ providers = ProvidersLoaded
    /\ updates = NoUpdates
    /\ lib = NoCalls
    /\ InitRunner

Init == steps \in Flows /\ runner_conf \in RunnerConfs /\ now = 0 /\ InitState


\* --------------------------------------------------------------------------
\* run(): the scheduler thread
\* --------------------------------------------------------------------------
\* run() sets the start timestamp of the run under the lock
RunEnter ==
    /\ pc = "start"
    /\ \E t \in TimeReads :
         /\ now' = t
         /\ status' = [status EXCEPT !.started_at = Some(t)]
    /\ pc' = "validate"
    /\ UNCHANGED << conf_vars, aux_vars, flows, raised, graph_vars, loop_vars, pool_vars >>

\* deps of run() after validation: the inferred names that are steps
valid_deps == [ n \in Names |-> infer_deps(name_to_step[n]) \cap Names ]

\* dependents of run(): the transposed graph
transposed(dp) == [ d \in Names |-> { n \in Names : d \in dp[n] } ]

\* initial_ready with a fault: every step is enqueued, whatever its in-degree
RECURSIVE initial_ready_all(_, _)
initial_ready_all(i, deg) ==
    IF i > Len(steps) THEN << >>
    ELSE (IF \A j \in 1 .. (i - 1) : steps[j].name # steps[i].name
          THEN << steps[i].name >> ELSE << >>) \o initial_ready_all(i + 1, deg)

\* the initial ready queue: the steps of in-degree 0 in the order in which
\* name_to_step (a dict filled from the flow list) iterates
RECURSIVE initial_ready(_, _)
initial_ready(i, deg) ==
    IF i > Len(steps) THEN << >>
    ELSE (IF /\ \A j \in 1 .. (i - 1) : steps[j].name # steps[i].name
             /\ deg[steps[i].name] = 0
          THEN << steps[i].name >> ELSE << >>) \o initial_ready(i + 1, deg)

\* submit_all with a fault: every ready step is submitted twice
submit_all_twice(q) ==
    LET new == { q[i] : i \in DOMAIN q }
    IN  /\ work_queue' = work_queue \o q \o q
        /\ task' = [ n \in new |-> [pc |-> "queued", flows_snapshot |-> None,
                                    ok |-> FALSE, deps_at_start |-> << >>,
                                    provider_cfg |-> None] ] @@ task
        /\ submitted' =
             [ n \in DOMAIN submitted |->
                 submitted[n] + 2 * Cardinality({ i \in DOMAIN q : q[i] = n }) ]
        /\ futures' = futures \cup new

\* submit_step for every name of the sequence q, in order: executor.submit
\* queues task() and futures[f] = n
submit_all(q) ==
    LET new == { q[i] : i \in DOMAIN q }
    IN  /\ work_queue' = work_queue \o q
        /\ task' = [ n \in new |-> [pc |-> "queued", flows_snapshot |-> None,
                                    ok |-> FALSE, deps_at_start |-> << >>,
                                    provider_cfg |-> None] ] @@ task
        /\ submitted' =
             [ n \in DOMAIN submitted |->
                 submitted[n] + Cardinality({ i \in DOMAIN q : q[i] = n }) ]
        /\ futures' = futures \cup new

\* run() infers and validates the dependencies; it raises ValueError when a
\* dependency names no step, and else creates the status entries, enqueues
\* the steps of in-degree 0 and submits them (the seeding loop)
Validate ==
    /\ pc = "validate"
    /\ IF invalid_deps # << >>
       THEN /\ raised' = Some([type |-> "ValueError", invalid_deps |-> invalid_deps])
            /\ pc' = "raised"
            /\ UNCHANGED << status, graph_vars, futures, pool_vars >>
       ELSE /\ deps' = valid_deps
            /\ dependents' = transposed(valid_deps)
            /\ in_degree' = [ n \in Names |-> Cardinality(valid_deps[n]) ]
            /\ status' = [status EXCEPT !.steps = [ n \in Names |-> StepStatus(n) ]]
            /\ LET q == initial_ready(1, [ n \in Names |-> Cardinality(valid_deps[n]) ])
               IN  /\ work_queue' = q
                   /\ task' = [ n \in { q[i] : i \in DOMAIN q } |->
                                  [pc |-> "queued", flows_snapshot |-> None, ok |-> FALSE,
                                   deps_at_start |-> << >>, provider_cfg |-> None] ]
                   /\ submitted' = [ n \in Names |-> IF \E i \in DOMAIN q : q[i] = n
                                                     THEN 1 ELSE 0 ]
                   /\ futures' = { q[i] : i \in DOMAIN q }
            /\ pc' = "loop"
            /\ UNCHANGED raised
    /\ UNCHANGED << conf_vars, aux_vars, flows, now, ready_q, error_occurred, to_process >>

\* the futures of the dict that have completed
done_futures == { n \in futures : task[n].pc = "done" }

\* while futures: cf_wait returns the completed futures; an empty result
\* sleeps and tries again
Wait ==
    /\ pc = "loop"
    /\ futures # {}
    /\ done_futures # {}
    /\ to_process' = done_futures
    /\ pc' = "for"
    /\ UNCHANGED << conf_vars, aux_vars, shared_vars, raised, graph_vars, ready_q, futures,
                    error_occurred, pool_vars >>

\* LoopExit with a fault: the loop ends while futures are outstanding
LoopExit_Early ==
    /\ pc = "loop"
    /\ pc' = "finally"
    /\ UNCHANGED << conf_vars, aux_vars, shared_vars, raised, graph_vars, loop_vars, pool_vars >>

\* LoopExit with a fault: the loop also waits for the steps still pending
LoopExit_AwaitAll ==
    /\ pc = "loop"
    /\ futures = {}
    /\ \A n \in DOMAIN status.steps : status.steps[n].state # "pending"
    /\ pc' = "finally"
    /\ UNCHANGED << conf_vars, aux_vars, shared_vars, raised, graph_vars, loop_vars, pool_vars >>

\* while futures: the dict is empty and the loop ends
LoopExit ==
    /\ pc = "loop"
    /\ futures = {}
    /\ pc' = "finally"
    /\ UNCHANGED << conf_vars, aux_vars, shared_vars, raised, graph_vars, loop_vars, pool_vars >>

\* the in-degree loop after the completion of n, on the in-degree map deg:
\* every dependent with a positive in-degree is decremented
decrement(deg, n) ==
    [ d \in DOMAIN deg |->
        IF d \in dependents[n] /\ deg[d] > 0 THEN deg[d] - 1 ELSE deg[d] ]

\* newly_ready with a fault: a dependent is enqueued at its first decrement
newly_ready_any(deg, n) == { d \in dependents[n] : deg[d] >= 1 }

\* the dependents of n that the in-degree loop enqueues: they reach 0
newly_ready(deg, n) == { d \in dependents[n] : deg[d] = 1 }

\* ProcessOk with a fault: the in-degree loop is left out after a success
ProcessOk_NoDecrement ==
    /\ pc = "for"
    /\ \E f \in to_process :
         /\ f \in futures
         /\ task[f].ok
         /\ to_process' = to_process \ {f}
         /\ futures' = futures \ {f}
    /\ UNCHANGED << conf_vars, aux_vars, shared_vars, pc, raised, graph_vars, ready_q,
                    error_occurred, pool_vars >>

\* for f in to_process, a task that returned ok: futures.pop(f), then the
\* in-degree loop; q is the order in which the dependents become ready
ProcessOk ==
    /\ pc = "for"
    /\ \E f \in to_process :
         /\ f \in futures
         /\ task[f].ok
         /\ to_process' = to_process \ {f}
         /\ futures' = futures \ {f}
         /\ in_degree' = decrement(in_degree, f)
         /\ \E q \in Perms(newly_ready(in_degree, f)) : ready_q' = ready_q \o q
    /\ UNCHANGED << conf_vars, aux_vars, shared_vars, pc, raised, deps, dependents,
                    error_occurred, pool_vars >>

\* the StepStatus fields that mark a step skipped at time t
skipped_fields(t) == [state |-> "skipped", started_at |-> None, ended_at |-> Some(t)]

\* skip_descendants(n) of run(), on acc = [in_degree, steps, abort]: every
\* dependent whose in-degree is not yet -1 gets in-degree -1 and state skipped,
\* and so do its own dependents; rest is the part of dependents[n] still to
\* visit
RECURSIVE skip_each(_, _, _)
skip_each(rest, acc, t) ==
    IF rest = {} THEN acc
    ELSE LET dep == CHOOSE d \in rest : TRUE
             marked == [acc EXCEPT
                          !.in_degree[dep] = -1,
                          !.steps = update_step_status(@, dep, skipped_fields(t))]
             acc1 == IF acc.in_degree[dep] >= 0
                     THEN skip_each(dependents[dep], marked, t)
                     ELSE acc
         IN  skip_each(rest \ {dep}, acc1, t)

\* skip_descendants with a fault: every other step is marked, dependent or not
skip_descendants_all(n, acc, t) == skip_each(Names \ {n}, acc, t)

\* skip_descendants with a fault: the cascade is left out
skip_descendants_none(n, acc, t) == acc

skip_descendants(n, acc, t) == skip_each(dependents[n], acc, t)

\* the policy branch "skip" for the direct dependent dep: dep is marked
\* skipped, then its descendants, then its in-degree is set to -1
skip_dependent(dep, acc, t) ==
    [ skip_descendants(
          dep, [acc EXCEPT !.steps = update_step_status(@, dep, skipped_fields(t))], t)
      EXCEPT !.in_degree[dep] = -1 ]

\* policy_loop with a fault: skip is handled as continue
RECURSIVE policy_loop_skip_runs(_, _, _)
policy_loop_skip_runs(q, acc, t) ==
    IF q = << >> THEN acc
    ELSE IF policy_of(name_to_step[Head(q)]) \in {"skip", "continue"}
         THEN policy_loop_skip_runs(Tail(q), acc, t)
         ELSE [acc EXCEPT !.abort = TRUE]

\* policy_loop with a fault: a dependent with policy continue ends the loop,
\* the dependents after it in the order q are not visited
RECURSIVE policy_loop_continue_ends(_, _, _)
policy_loop_continue_ends(q, acc, t) ==
    IF q = << >> THEN acc
    ELSE LET dep_policy == policy_of(name_to_step[Head(q)])
         IN  CASE dep_policy = "skip" ->
                    policy_loop_continue_ends(
                        Tail(q), skip_dependent(Head(q), acc, t), t)
               [] dep_policy = "continue" -> acc
               [] OTHER -> [acc EXCEPT !.abort = TRUE]

\* the policy loop of run() over the dependents of a failed step, visited in
\* the order q: skip marks the dependent and its descendants, continue does
\* nothing, fail and every other policy set the abort flag and leave the loop
RECURSIVE policy_loop(_, _, _)
policy_loop(q, acc, t) ==
    IF q = << >> THEN acc
    ELSE LET dep_policy == policy_of(name_to_step[Head(q)])
         IN  CASE dep_policy = "skip" ->
                    policy_loop(Tail(q), skip_dependent(Head(q), acc, t), t)
               [] dep_policy = "continue" -> policy_loop(Tail(q), acc, t)
               [] OTHER -> [acc EXCEPT !.abort = TRUE]

\* ProcessFailed with a fault: the in-degree loop is skipped after a failure
ProcessFailed_NoDecrement ==
    /\ pc = "for"
    /\ \E f \in to_process :
         /\ f \in futures
         /\ ~ task[f].ok
         /\ to_process' = to_process \ {f}
         /\ \E t \in TimeReads, q \in Perms(dependents[f]) :
              LET acc == policy_loop(
                             q, [in_degree |-> in_degree, steps |-> status.steps,
                                 abort |-> FALSE], t)
              IN  /\ now' = t
                  /\ status' = [status EXCEPT !.steps = acc.steps]
                  /\ error_occurred' = (error_occurred \/ acc.abort)
                  /\ futures' = IF acc.abort THEN {} ELSE futures \ {f}
                  /\ in_degree' = acc.in_degree
                  /\ ready_q' = (IF acc.abort THEN << >> ELSE ready_q)
    /\ UNCHANGED << conf_vars, aux_vars, flows, pc, raised, deps, dependents, pool_vars >>

\* for f in to_process, a task that failed: futures.pop(f), the policy loop
\* over its dependents (an abort clears ready_q and futures) and then the
\* in-degree loop
ProcessFailed ==
    /\ pc = "for"
    /\ \E f \in to_process :
         /\ f \in futures
         /\ ~ task[f].ok
         /\ to_process' = to_process \ {f}
         /\ \E t \in TimeReads, q \in Perms(dependents[f]) :
              LET acc == policy_loop(
                             q, [in_degree |-> in_degree, steps |-> status.steps,
                                 abort |-> FALSE], t)
              IN  /\ now' = t
                  /\ status' = [status EXCEPT !.steps = acc.steps]
                  /\ error_occurred' = (error_occurred \/ acc.abort)
                  /\ futures' = IF acc.abort THEN {} ELSE futures \ {f}
                  /\ in_degree' = decrement(acc.in_degree, f)
                  /\ \E r \in Perms(newly_ready(acc.in_degree, f)) :
                       ready_q' = (IF acc.abort THEN << >> ELSE ready_q) \o r
    /\ UNCHANGED << conf_vars, aux_vars, flows, pc, raised, deps, dependents, pool_vars >>

\* for f in to_process: futures.pop(f) of a future that is no key of the dict
\* raises KeyError; the finally clause shuts the executor down and run()
\* raises
ProcessKeyError ==
    /\ pc = "for"
    /\ \E f \in to_process :
         /\ f \notin futures
         /\ to_process' = to_process \ {f}
    /\ raised' = Some([type |-> "KeyError", invalid_deps |-> << >>])
    /\ pc' = "raised"
    /\ UNCHANGED << conf_vars, aux_vars, shared_vars, graph_vars, ready_q, futures,
                    error_occurred, pool_vars >>

\* SubmitReady with a fault: the abort flag does not stop the submissions
SubmitReady_IgnoreAbort ==
    /\ pc = "for"
    /\ to_process = {}
    /\ submit_all(ready_q)
    /\ ready_q' = << >>
    /\ pc' = IF error_occurred THEN "finally" ELSE "loop"
    /\ UNCHANGED << conf_vars, aux_vars, shared_vars, raised, graph_vars, error_occurred,
                    to_process >>

\* SubmitReady with a fault: the newly ready steps are dropped, not submitted
SubmitReady_Drop ==
    /\ pc = "for"
    /\ to_process = {}
    /\ IF error_occurred
       THEN /\ pc' = "finally"
            /\ UNCHANGED << ready_q, futures, pool_vars >>
       ELSE /\ submit_all(<< >>)
            /\ ready_q' = << >>
            /\ pc' = "loop"
    /\ UNCHANGED << conf_vars, aux_vars, shared_vars, raised, graph_vars, error_occurred,
                    to_process >>

\* SubmitReady with a fault: one ready step is submitted per iteration of the
\* scheduler loop
SubmitReady_OneAtATime ==
    /\ pc = "for"
    /\ to_process = {}
    /\ IF error_occurred
       THEN /\ pc' = "finally"
            /\ UNCHANGED << ready_q, futures, pool_vars >>
       ELSE /\ submit_all(IF ready_q = << >> THEN << >> ELSE << Head(ready_q) >>)
            /\ ready_q' = (IF ready_q = << >> THEN << >> ELSE Tail(ready_q))
            /\ pc' = "loop"
    /\ UNCHANGED << conf_vars, aux_vars, shared_vars, raised, graph_vars, error_occurred,
                    to_process >>

\* for f in to_process has ended: the newly ready steps are submitted unless
\* the abort flag is set; the abort flag then leaves the scheduler loop
SubmitReady ==
    /\ pc = "for"
    /\ to_process = {}
    /\ IF error_occurred
       THEN /\ pc' = "finally"
            /\ UNCHANGED << ready_q, futures, pool_vars >>
       ELSE /\ submit_all(ready_q)
            /\ ready_q' = << >>
            /\ pc' = "loop"
    /\ UNCHANGED << conf_vars, aux_vars, shared_vars, raised, graph_vars, error_occurred,
                    to_process >>

\* Finally with a fault: run() returns without the end timestamp
Finally_NoStamp ==
    /\ pc = "finally"
    /\ pc' = "done"
    /\ UNCHANGED << conf_vars, aux_vars, shared_vars, raised, graph_vars, loop_vars,
                    pool_vars >>

\* finally: executor.shutdown(wait=False), which lets queued tasks run; then
\* the end timestamp of the run is set under the lock
Finally ==
    /\ pc = "finally"
    /\ \E t \in TimeReads :
         /\ now' = t
         /\ status' = [status EXCEPT !.ended_at = Some(t)]
    /\ pc' = "done"
    /\ UNCHANGED << conf_vars, aux_vars, flows, raised, graph_vars, loop_vars, pool_vars >>

\* --------------------------------------------------------------------------
\* task(): the worker threads of the executor
\* --------------------------------------------------------------------------
\* self.sources of the configurations: make_runner passes "sources": {}
sources == << >>

\* _entry_point_providers after discovery: the provider types registered in
\* the group flowtoy.providers
entry_point_providers == {"env", "process", "rest"}

\* src_type of task(): the source of the step is a dict, its "type" is read
src_type(s) == s.source

\* create_provider(type_name, cfg) returns a provider; FALSE stands for the
\* ImportError it raises for a type that is not registered
create_provider(type_name) == type_name \in entry_point_providers

\* busy with a fault: the pool counts no thread as taken
busy_none == {}

\* the tasks a worker thread is executing
busy == { n \in DOMAIN task : task[n].pc \in {"started", "snapshot", "committed"} }

\* TaskStart with a fault: started_at is not written
TaskStart_NoStamp(n) ==
    /\ work_queue # << >>
    /\ n = Head(work_queue)
    /\ Cardinality(busy) < max_workers
    /\ work_queue' = Tail(work_queue)
    /\ task' = [task EXCEPT ![n].pc = "started",
                            ![n].deps_at_start =
                                [ d \in deps[n] |-> status.steps[d].state ]]
    /\ status' = [status EXCEPT !.steps = update_step_status(
                     @, n, [state |-> "running"])]
    /\ UNCHANGED << conf_vars, aux_vars, flows, now, pc, raised, graph_vars, loop_vars, submitted >>

\* a free worker takes the oldest queued task; task() sets state running and
\* started_at. deps_at_start keeps, for the properties, the states the
\* dependencies of the step have at this moment
TaskStart(n) ==
    /\ work_queue # << >>
    /\ n = Head(work_queue)
    /\ Cardinality(busy) < max_workers
    /\ work_queue' = Tail(work_queue)
    /\ task' = [task EXCEPT ![n].pc = "started",
                            ![n].deps_at_start =
                                [ d \in deps[n] |-> status.steps[d].state ]]
    /\ \E t \in TimeReads :
         /\ now' = t
         /\ status' = [status EXCEPT !.steps = update_step_status(
                          @, n, [state |-> "running", started_at |-> Some(t)])]
    /\ UNCHANGED << conf_vars, aux_vars, flows, pc, raised, graph_vars, loop_vars, submitted >>

\* flows_copy with a fault: the copy is taken of self.sources
flows_copy_sources(fl) == sources

\* flows_snapshot = dict(self.flows)
flows_copy(fl) == fl

\* cfg of task(): the "configuration" of the step's source, as configured
cfg_of(s) == s.configuration

\* task() resolves the source, creates the provider from cfg and copies flows
\* under the lock
TaskSnapshot(n) ==
    /\ n \in DOMAIN task
    /\ task[n].pc = "started"
    /\ create_provider(src_type(name_to_step[n]))
    /\ task' = [task EXCEPT ![n].pc = "snapshot",
                            ![n].provider_cfg = Some(cfg_of(name_to_step[n])),
                            ![n].flows_snapshot = Some(flows_copy(flows))]
    /\ UNCHANGED << conf_vars, aux_vars, shared_vars, pc, raised, graph_vars, loop_vars,
                    work_queue, submitted >>

\* the payload of the step renders against the snapshot snap
payload_renders(s, snap) ==
    LET ctx == [flows |-> snap, sources |-> sources]
    IN  CASE s.input.type = "parameter" ->
               IsNone(s.input.value) \/ render_template(Val(s.input.value), ctx)
          [] s.input.type \in {"filter", "body"} ->
               IsNone(s.input.template) \/ render_template(Val(s.input.template), ctx)
          [] OTHER -> TRUE

\* out_map with a fault: only the first entry of the output list is extracted
out_map_first(s) ==
    IF s.output = << >> \/ IsNone(s.output[1].name) THEN {}
    ELSE { Val(s.output[1].name) }

\* the keys of out_map of task(): one key for every entry of the output list
\* that has a string name
out_map(s) ==
    { Val(s.output[i].name) : i \in { j \in DOMAIN s.output : ~ IsNone(s.output[j].name) } }

\* the payload rendered, the provider reported success and the outputs were
\* extracted: task() commits flows[step_name] = out_map under the lock
TaskCommit(n) ==
    /\ n \in DOMAIN task
    /\ task[n].pc = "snapshot"
    /\ payload_renders(name_to_step[n], Val(task[n].flows_snapshot))
    /\ flows' = (n :> out_map(name_to_step[n])) @@ flows
    /\ task' = [task EXCEPT ![n].pc = "committed"]
    /\ UNCHANGED << conf_vars, aux_vars, status, now, pc, raised, graph_vars, loop_vars,
                    work_queue, submitted >>

\* after the commit task() sets state succeeded and ended_at in a second
\* critical section and returns (True, None, None)
TaskSucceed(n) ==
    /\ n \in DOMAIN task
    /\ task[n].pc = "committed"
    /\ \E t \in TimeReads :
         /\ now' = t
         /\ status' = [status EXCEPT !.steps = update_step_status(
                          @, n, [state |-> "succeeded", ended_at |-> Some(t)])]
    /\ task' = [task EXCEPT ![n].pc = "done", ![n].ok = TRUE]
    /\ UNCHANGED << conf_vars, aux_vars, flows, pc, raised, graph_vars, loop_vars,
                    work_queue, submitted >>

\* what provider.call gives when the provider of step n does not succeed: an
\* envelope whose status.success is false, or an exception
failing_result(n) ==
    CASE n = "a" -> [kind |-> "envelope", success |-> FALSE, code |-> 2,
                     notes |-> << "n1", "n2" >>, text |-> ""]
      [] n = "b" -> [kind |-> "raise", success |-> FALSE, code |-> 0,
                     notes |-> << >>, text |-> ""]
      [] OTHER   -> [kind |-> "envelope", success |-> FALSE, code |-> 2,
                     notes |-> << >>, text |-> ""]

\* "; ".join(notes)
RECURSIVE join_notes(_)
join_notes(notes) ==
    IF notes = << >> THEN ""
    ELSE IF Len(notes) = 1 THEN notes[1]
    ELSE notes[1] \o "; " \o join_notes(Tail(notes))

\* str(e) of the exception that leaves the "unify result" part of task(): the
\* provider's own exception, or the RuntimeError raised for an envelope that
\* reports no success
result_error(r) ==
    IF r.kind = "raise" THEN r.text
    ELSE Or(IF r.notes # << >> THEN join_notes(r.notes) ELSE "",
            "provider reported failure (code=" \o ToString(r.code) \o ")")

\* task_error with a fault: error holds the type of the exception, not its text
task_error_type(n) ==
    IF task[n].pc = "started" THEN "ImportError"
    ELSE IF payload_renders(name_to_step[n], Val(task[n].flows_snapshot))
         THEN "RuntimeError"
         ELSE "UndefinedError"

\* str(e) of the exception task() catches: create_provider raised, rendering
\* raised, or the provider raised or reported failure
task_error(n) ==
    IF task[n].pc = "started" THEN "ImportError"
    ELSE IF payload_renders(name_to_step[n], Val(task[n].flows_snapshot))
         THEN result_error(failing_result(n))
         ELSE "UndefinedError"

\* except Exception: task() sets state failed, error and ended_at and returns
\* (False, e, policy)
TaskFail(n) ==
    /\ n \in DOMAIN task
    /\ \/ task[n].pc = "snapshot"
       \/ task[n].pc = "started" /\ ~ create_provider(src_type(name_to_step[n]))
    /\ \E t \in TimeReads :
         /\ now' = t
         /\ status' = [status EXCEPT !.steps = update_step_status(
                          @, n,
                          [state |-> "failed", error |-> Some(task_error(n)),
                           ended_at |-> Some(t)])]
    /\ task' = [task EXCEPT ![n].pc = "done", ![n].ok = FALSE]
    /\ UNCHANGED << conf_vars, aux_vars, flows, pc, raised, graph_vars, loop_vars,
                    work_queue, submitted >>

\* --------------------------------------------------------------------------
\* runner_api: GET /status, served by a thread of the web server while run()
\* executes; the handler takes no lock
\* --------------------------------------------------------------------------
\* the keys of status.steps in the order of the dict: the order in which run()
\* created the entries
RECURSIVE dict_order(_)
dict_order(i) ==
    IF i > Len(steps) THEN << >>
    ELSE (IF /\ steps[i].name \in DOMAIN status.steps
             /\ \A j \in 1 .. (i - 1) : steps[j].name # steps[i].name
          THEN << steps[i].name >> ELSE << >>) \o dict_order(i + 1)

\* x is true in a Python condition, for an Optional[str]
truthy(x) == ~ IsNone(x) /\ Val(x) # ""

\* the handler's except clause: JSONResponse({"error": str(e)}, 500)
ErrorResponse == [status_code |-> 500, error |-> "RuntimeError"]

\* completed with a fault: the count is taken from the runner's status, not
\* from the steps_info of the response
completed_live(info) ==
    Cardinality({ k \in DOMAIN status.steps :
                    status.steps[k].state \in {"succeeded", "failed"} })

\* completed of the handler: the entries of steps_info whose state is
\* succeeded or failed
completed(info) ==
    Cardinality({ k \in DOMAIN info : info[k].state \in {"succeeded", "failed"} })

\* current_step of the handler: the first entry of steps_info, in the order q
\* of the dict, whose state is running
current_step(info, q) ==
    LET running == { i \in DOMAIN q : info[q[i]].state = "running" }
    IN  IF running = {} THEN None
        ELSE Some(q[CHOOSE i \in running : \A j \in running : i <= j])

\* the handler starts the loop over r.status.steps.items()
StatusBegin ==
    /\ api.pc = "idle"
    /\ api' = [api EXCEPT !.pc = "next", !.keys = DOMAIN status.steps,
                          !.todo = dict_order(1), !.after_run = (pc = "done")]
    /\ UNCHANGED << run_vars, connectors, providers, updates, lib >>

\* the loop takes the next item and reads the step's output keys from
\* r.flows; a dict whose size changed since the loop began raises
\* RuntimeError, which the except clause turns into the response
StatusOutputs ==
    /\ api.pc = "next"
    /\ IF DOMAIN status.steps # api.keys
       THEN api' = [api EXCEPT !.pc = "responded", !.response = Some(ErrorResponse)]
       ELSE /\ api.todo # << >>
            /\ LET k == Head(api.todo)
               IN  api' = [api EXCEPT !.pc = "fields",
                             !.outputs = IF k \in DOMAIN flows THEN flows[k] ELSE {}]
    /\ UNCHANGED << run_vars, connectors, providers, updates, lib >>

\* the handler reads v.state, v.started_at and v.ended_at
StatusFields ==
    /\ api.pc = "fields"
    /\ LET v == status.steps[Head(api.todo)]
       IN  api' = [api EXCEPT !.pc = "notes",
                     !.fields = Some([state |-> v.state, started_at |-> v.started_at,
                                      ended_at |-> v.ended_at])]
    /\ UNCHANGED << run_vars, connectors, providers, updates, lib >>

\* the handler reads v.error for the notes and stores the entry of the step
StatusNotes ==
    /\ api.pc = "notes"
    /\ LET k == Head(api.todo)
           v == status.steps[k]
           f == Val(api.fields)
           info == [state |-> f.state, started_at |-> f.started_at,
                    ended_at |-> f.ended_at,
                    notes |-> IF truthy(v.error) THEN << Val(v.error) >> ELSE << >>,
                    outputs |-> api.outputs]
       IN  api' = [api EXCEPT !.pc = "next", !.todo = Tail(@), !.outputs = {},
                     !.fields = None, !.steps_info = (k :> info) @@ @]
    /\ UNCHANGED << run_vars, connectors, providers, updates, lib >>

\* after the loop the handler computes current_step, total and completed from
\* steps_info, reads the timestamps of the run and returns
StatusRespond ==
    /\ api.pc = "next"
    /\ DOMAIN status.steps = api.keys
    /\ api.todo = << >>
    /\ api' = [api EXCEPT !.pc = "responded",
                 !.response = Some([status_code |-> 200,
                                    started_at |-> status.started_at,
                                    ended_at |-> status.ended_at,
                                    total_steps |-> Cardinality(DOMAIN api.steps_info),
                                    completed_steps |-> completed(api.steps_info),
                                    current_step |->
                                        current_step(api.steps_info, dict_order(1)),
                                    steps |-> api.steps_info])]
    /\ UNCHANGED << run_vars, connectors, providers, updates, lib >>

\* --------------------------------------------------------------------------
\* _update_step_status, called by several threads at once
\* --------------------------------------------------------------------------
\* a thread calls _update_step_status(name, state=..., started_at=ts)
UpdateCall(t, name, ts) ==
    /\ updates.call[t].pc = "idle"
    /\ updates' = [updates EXCEPT
                     !.call[t] = [pc |-> "acquire", name |-> name,
                                  state |-> state_label(t, ts), started_at |-> ts]]
    /\ UNCHANGED << run_vars, api, connectors, providers, lib >>

\* UpdateAcquire with a fault: the lock is taken without waiting for it
UpdateAcquire_NoLock(t) ==
    /\ updates.call[t].pc = "acquire"
    /\ updates' = [updates EXCEPT !.lock = t, !.call[t].pc = "state"]
    /\ UNCHANGED << run_vars, api, connectors, providers, lib >>

\* with self._lock: the thread waits until the lock is free
UpdateAcquire(t) ==
    /\ updates.call[t].pc = "acquire"
    /\ updates.lock = 0
    /\ updates' = [updates EXCEPT !.lock = t, !.call[t].pc = "state"]
    /\ UNCHANGED << run_vars, api, connectors, providers, lib >>

\* st = self.status.steps.get(step_name); if st: st.state = state; a name
\* without entry skips the body
UpdateState(t) ==
    /\ updates.call[t].pc = "state"
    /\ LET c == updates.call[t]
       IN  IF c.name \in DOMAIN status.steps
           THEN /\ status' = [status EXCEPT !.steps[c.name].state = c.state]
                /\ updates' = [updates EXCEPT !.call[t].pc = "kwargs"]
           ELSE /\ status' = status
                /\ updates' = [updates EXCEPT !.call[t].pc = "release"]
    /\ UNCHANGED << conf_vars, flows, now, pc, raised, graph_vars, loop_vars, pool_vars,
                    api, connectors, providers, lib >>

\* for k, v in kwargs.items(): setattr(st, k, v)
UpdateKwargs(t) ==
    /\ updates.call[t].pc = "kwargs"
    /\ LET c == updates.call[t]
       IN  status' = [status EXCEPT !.steps[c.name].started_at = Some(c.started_at)]
    /\ updates' = [updates EXCEPT !.call[t].pc = "release"]
    /\ UNCHANGED << conf_vars, flows, now, pc, raised, graph_vars, loop_vars, pool_vars,
                    api, connectors, providers, lib >>

\* the with block ends: the lock is released and the call returns
UpdateRelease(t) ==
    /\ updates.call[t].pc = "release"
    /\ updates' = [updates EXCEPT !.lock = 0, !.call[t].pc = "idle"]
    /\ UNCHANGED << run_vars, api, connectors, providers, lib >>

\* --------------------------------------------------------------------------
\* connectors.result: sanitize_meta
\* --------------------------------------------------------------------------
UpperChars ==
    << "A", "B", "C", "D", "E", "F", "G", "H", "I", "J", "K", "L", "M", "N", "O",
       "P", "Q", "R", "S", "T", "U", "V", "W", "X", "Y", "Z" >>
LowerChars ==
    << "a", "b", "c", "d", "e", "f", "g", "h", "i", "j", "k", "l", "m", "n", "o",
       "p", "q", "r", "s", "t", "u", "v", "w", "x", "y", "z" >>

\* k.lower() on a key given by its characters
str_lower(k) ==
    [ i \in DOMAIN k |->
        IF \E j \in DOMAIN UpperChars : UpperChars[j] = k[i]
        THEN LowerChars[CHOOSE j \in DOMAIN UpperChars : UpperChars[j] = k[i]]
        ELSE k[i] ]

\* r in t, for strings given by their characters
str_in(r, t) ==
    \E i \in 0 .. (Len(t) - Len(r)) : SubSeq(t, i + 1, i + Len(r)) = r

DEFAULT_REDACT ==
    << << "p", "a", "s", "s", "w", "o", "r", "d" >>,
       << "s", "e", "c", "r", "e", "t" >>,
       << "t", "o", "k", "e", "n" >>,
       << "b", "i", "n", "d", "_", "p", "a", "s", "s", "w", "o", "r", "d" >>,
       << "p", "w" >> >>

\* the keys and values of the meta maps that callers pass
MetaKeys ==
    { << "P", "W" >>, << "u", "s", "e", "r" >>, << "T", "o", "k", "e", "n" >>,
      << "u", "p", "w", "a", "r", "d" >>, << "t", "o", "k" >> }
MetaValues == {"v", "<redacted>"}
Metas == UNION { [D -> MetaValues] : D \in SUBSET MetaKeys }

\* sanitize_meta with a fault: the keys are written into meta itself, not
\* into a copy
sanitize_meta_in_place(meta) ==
    LET out == [ k \in DOMAIN meta |->
                   IF \E i \in DOMAIN DEFAULT_REDACT :
                          str_in(DEFAULT_REDACT[i], str_lower(k))
                   THEN "<redacted>" ELSE meta[k] ]
    IN  [meta |-> out, out |-> out]

\* sanitize_meta(meta) with the default redact keys: out is a copy of meta in
\* which the keys whose lowercased form contains a redact key are replaced;
\* the result gives the caller's map after the call and the returned map
sanitize_meta(meta) ==
    LET out == [ k \in DOMAIN meta |->
                   IF \E i \in DOMAIN DEFAULT_REDACT :
                          str_in(DEFAULT_REDACT[i], str_lower(k))
                   THEN "<redacted>" ELSE meta[k] ]
    IN  [meta |-> meta, out |-> out]

\* a caller passes its map to sanitize_meta
SanitizeCall ==
    /\ lib.op = "sanitize"
    /\ IsNone(lib.out)
    /\ lib' = [lib EXCEPT !.meta = sanitize_meta(lib.meta).meta,
                          !.out = Some(sanitize_meta(lib.meta).out)]
    /\ UNCHANGED << run_vars, api, connectors, providers, updates >>

\* the caller passes the returned map to sanitize_meta again
SanitizeAgain ==
    /\ lib.op = "sanitize"
    /\ ~ IsNone(lib.out)
    /\ IsNone(lib.again)
    /\ lib' = [lib EXCEPT !.out = Some(sanitize_meta(Val(lib.out)).meta),
                          !.again = Some(sanitize_meta(Val(lib.out)).out)]
    /\ UNCHANGED << run_vars, api, connectors, providers, updates >>

\* --------------------------------------------------------------------------
\* config: deep_merge
\* --------------------------------------------------------------------------
\* the values of a YAML document: scalars, lists and maps, each with its type
Scalar(n) == [t |-> "int", n |-> n]
List(q) == [t |-> "list", items |-> q]
Dict(f) == [t |-> "dict", v |-> f]

\* the documents that callers merge: maps on the keys k and m whose values are
\* a scalar, a list or a map on the keys x and y
DocValues ==
    { Scalar(1), Scalar(2), List(<< 1 >>), List(<< 2, 1 >>),
      Dict([ n \in {"x"} |-> Scalar(1) ]), Dict([ n \in {"x"} |-> Scalar(2) ]),
      Dict([ n \in {"y"} |-> Scalar(1) ]) }
Docs == UNION { [D -> DocValues] : D \in SUBSET {"k", "m"} }

\* deep_merge with a fault: a key of both maps keeps the value of the first
RECURSIVE deep_merge_first_wins(_, _)
deep_merge_first_wins(a, b) ==
    [ k \in DOMAIN a \cup DOMAIN b |->
        IF k \notin DOMAIN a THEN b[k]
        ELSE IF k \in DOMAIN b /\ a[k].t = "dict" /\ b[k].t = "dict"
             THEN Dict(deep_merge_first_wins(a[k].v, b[k].v))
             ELSE a[k] ]

\* deep_merge(a, b): out is a deep copy of a; a key of b whose value is a map
\* in both is merged recursively, every other key of b gets a copy of b's
\* value
RECURSIVE deep_merge(_, _)
deep_merge(a, b) ==
    [ k \in DOMAIN a \cup DOMAIN b |->
        IF k \notin DOMAIN b THEN a[k]
        ELSE IF k \in DOMAIN a /\ a[k].t = "dict" /\ b[k].t = "dict"
             THEN Dict(deep_merge(a[k].v, b[k].v))
             ELSE b[k] ]

\* a call deep_merge(a, b) as its caller sees it: the two arguments after the
\* call, which works on deep copies only, and the returned map
deep_merge_call(a, b) == [a |-> a, b |-> b, out |-> deep_merge(a, b)]

\* a caller merges a with b, b with a and b with c
MergePairs ==
    /\ lib.op = "merge"
    /\ IsNone(lib.ab)
    /\ LET r == deep_merge_call(lib.a, lib.b)
           q == deep_merge_call(r.b, r.a)
           p == deep_merge_call(q.a, lib.c)
       IN  lib' = [lib EXCEPT !.a = q.b, !.b = p.a, !.c = p.b,
                             !.ab = Some(r.out), !.ba = Some(q.out),
                             !.bc = Some(p.out)]
    /\ UNCHANGED << run_vars, api, connectors, providers, updates >>

\* the caller merges the results with the third document
MergeTriples ==
    /\ lib.op = "merge"
    /\ ~ IsNone(lib.ab)
    /\ IsNone(lib.ab_c)
    /\ lib' = [lib EXCEPT !.ab_c = Some(deep_merge(Val(lib.ab), lib.c)),
                          !.a_bc = Some(deep_merge(lib.a, Val(lib.bc)))]
    /\ UNCHANGED << run_vars, api, connectors, providers, updates >>

\* --------------------------------------------------------------------------
\* connectors: register_connector and create_connector
\* --------------------------------------------------------------------------
\* register_connector(name, constructor)
register_connector(name, constructor) ==
    /\ connectors' = [connectors EXCEPT
                        !.registry = (name :> constructor) @@ @,
                        !.registered = (name :> constructor) @@ @]
    /\ UNCHANGED << run_vars, api, providers, updates, lib >>

\* dict.update: the entries of d replace those of r that have the same key
dict_update(r, d) == d @@ r

\* create_connector(type_name, configuration): the registry as it is, then the
\* registry after the discovery pass of the first such call, then the import
\* of a module of that name, which no type of ConnectorTypes has
create_connector(type_name) ==
    LET first_hit == type_name \in DOMAIN connectors.registry
        registry == IF first_hit \/ connectors.discovered THEN connectors.registry
                    ELSE dict_update(connectors.registry, connector_plugins)
        outcome == IF type_name \in DOMAIN registry THEN registry[type_name]
                   ELSE "ImportError"
        last_registered == IF type_name \in DOMAIN connectors.registered
                           THEN Some(connectors.registered[type_name]) ELSE None
    IN  /\ connectors' = [connectors EXCEPT
                            !.registry = registry,
                            !.discovered = @ \/ ~ first_hit,
                            !.created = Some([type |-> type_name,
                                              constructor |-> outcome,
                                              registered |-> last_registered])]
        /\ UNCHANGED << run_vars, api, providers, updates, lib >>

\* --------------------------------------------------------------------------
\* providers: create_provider, called by the worker threads
\* --------------------------------------------------------------------------
\* a thread calls create_provider(type_name, configuration)
ProviderCall(t, type_name) ==
    /\ providers.call[t].pc \in {"idle", "returned"}
    /\ providers' = [providers EXCEPT
                       !.call[t] = [pc |-> "check", type |-> type_name, result |-> ""]]
    /\ UNCHANGED << run_vars, api, connectors, updates, lib >>

\* if not _entry_points_discovered
ProviderCheck(t) ==
    /\ providers.call[t].pc = "check"
    /\ providers' = [providers EXCEPT
                       !.call[t].pc = IF providers.discovered THEN "lookup"
                                      ELSE "discover"]
    /\ UNCHANGED << run_vars, api, connectors, updates, lib >>

\* discovered = discover_entry_points(): one discovery pass
ProviderDiscover(t) ==
    /\ providers.call[t].pc = "discover"
    /\ providers' = [providers EXCEPT !.passes = @ + 1, !.call[t].pc = "update"]
    /\ UNCHANGED << run_vars, api, connectors, updates, lib >>

\* _entry_point_providers.update(discovered)
ProviderUpdate(t) ==
    /\ providers.call[t].pc = "update"
    /\ providers' = [providers EXCEPT !.table = @ \cup entry_point_providers,
                                      !.call[t].pc = "flag"]
    /\ UNCHANGED << run_vars, api, connectors, updates, lib >>

\* _entry_points_discovered = True
ProviderFlag(t) ==
    /\ providers.call[t].pc = "flag"
    /\ providers' = [providers EXCEPT !.discovered = TRUE, !.call[t].pc = "lookup"]
    /\ UNCHANGED << run_vars, api, connectors, updates, lib >>

\* the lookup in _entry_point_providers: ImportError for a type that is not
\* in the table, else the provider
ProviderLookup(t) ==
    /\ providers.call[t].pc = "lookup"
    /\ providers' = [providers EXCEPT
                       !.call[t].pc = "returned",
                       !.call[t].result =
                           IF providers.call[t].type \in providers.table
                           THEN "provider" ELSE "ImportError"]
    /\ UNCHANGED << run_vars, api, connectors, updates, lib >>

Next ==
    \/ RunEnter
    \/ Validate
    \/ Wait
    \/ LoopExit
    \/ ProcessOk
    \/ ProcessFailed
    \/ ProcessKeyError
    \/ SubmitReady
    \/ Finally
    \/ \E n \in Names : TaskStart(n)
    \/ \E n \in Names : TaskSnapshot(n)
    \/ \E n \in Names : TaskCommit(n)
    \/ \E n \in Names : TaskSucceed(n)
    \/ \E n \in Names : TaskFail(n)

Spec == Init /\ [][Next]_vars


\* the scheduler and every worker thread keep running while they can take a
\* step: threads are scheduled fairly and provider calls return
FairSpec == Spec /\ WF_vars(Next)

\* the same runs for the flows whose steps have plain inputs, whose second
\* step has no dependency and whose last step depends on the first, under the
\* same fairness
InitLive ==
    /\ Init
    /\ Len(steps) = 3
    /\ "a" \in steps[3].depends_on
    /\ steps[2].depends_on = {}
    /\ \A i \in DOMAIN steps : steps[i].input = InEmpty
LiveSpec == InitLive /\ [][Next]_vars /\ WF_vars(Next)

\* the runs, under the same fairness, of the flows whose second step is
\* independent and whose last step depends on the first, on itself or, through
\* its input template, on its own outputs
InitTerm ==
    /\ Init
    /\ Len(steps) = 3
    /\ steps[2].depends_on = {}
    /\ steps[2].input = InEmpty
    /\ \/ steps[3].input = InEmpty /\ steps[3].depends_on \in {{"a"}, {"a", "b"}, {"c"}}
       \/ steps[3].input = InParam("c")
TermSpec == InitTerm /\ [][Next]_vars /\ WF_vars(Next)

\* a run observed by one GET /status request: a flow of one step, and a flow
\* whose second step is independent and whose last step depends on the first;
\* the clock has the same value at every reading
ApiFlows ==
    { << sa >> : sa \in StepsA }
    \cup { << sa, Step("b", {}, InEmpty, "", OutV), Step("c", {"a"}, InEmpty, "", << >>) >> :
             sa \in StepsA }
InitApi ==
    /\ steps \in ApiFlows
    /\ runner_conf = [on_error |-> "", max_workers |-> MaxWorkers]
    /\ now = MaxClock
    /\ InitState
ApiNext ==
    \/ Next
    \/ StatusBegin
    \/ StatusOutputs
    \/ StatusFields
    \/ StatusNotes
    \/ StatusRespond
ApiSpec == InitApi /\ [][ApiNext]_vars

\* the calls a process makes of register_connector and create_connector, no
\* run in progress
InitRegistry ==
    /\ steps = << >>
    /\ runner_conf = [on_error |-> "", max_workers |-> 1]
    /\ now = 0
    /\ InitState
ConnectorNext ==
    \/ \E t \in ConnectorTypes, c \in RuntimeConstructors : register_connector(t, c)
    \/ \E t \in ConnectorTypes : create_connector(t)
ConnectorSpec == InitRegistry /\ [][ConnectorNext]_vars

\* the calls worker threads make of create_provider, each thread one call at a
\* time
ProviderNext ==
    \/ \E t \in Callers, n \in ProviderTypes : ProviderCall(t, n)
    \/ \E t \in Callers : ProviderCheck(t)
    \/ \E t \in Callers : ProviderDiscover(t)
    \/ \E t \in Callers : ProviderUpdate(t)
    \/ \E t \in Callers : ProviderFlag(t)
    \/ \E t \in Callers : ProviderLookup(t)
ProviderSpec == InitRegistry /\ [][ProviderNext]_vars

\* threads that call _update_step_status on a runner whose status has the
\* entry of its one step, no run in progress
InitUpdate ==
    /\ steps \in { << sa >> : sa \in StepsA }
    /\ runner_conf = [on_error |-> "", max_workers |-> 1]
    /\ now = 0
    /\ api = ApiIdle
    /\ connectors = ConnectorsLoaded
    /\ providers = ProvidersLoaded
    /\ updates = NoUpdates
    /\ lib = NoCalls
    /\ status = [RunStatus EXCEPT !.steps = [ n \in {"a"} |-> StepStatus(n) ]]
    /\ flows = << >>
    /\ pc = "start"
    /\ raised = None
    /\ deps = << >>
    /\ dependents = << >>
    /\ in_degree = << >>
    /\ ready_q = << >>
    /\ futures = {}
    /\ error_occurred = FALSE
    /\ to_process = {}
    /\ work_queue = << >>
    /\ task = << >>
    /\ submitted = << >>
UpdateNext ==
    \/ \E t \in Callers, n \in UpdateNames, ts \in UpdateTimes : UpdateCall(t, n, ts)
    \/ \E t \in Callers : UpdateAcquire(t)
    \/ \E t \in Callers : UpdateState(t)
    \/ \E t \in Callers : UpdateKwargs(t)
    \/ \E t \in Callers : UpdateRelease(t)
UpdateSpec == InitUpdate /\ [][UpdateNext]_vars

\* the calls of sanitize_meta on the maps of Metas; given is the map as the
\* caller built it
InitSanitize ==
    /\ steps = << >>
    /\ runner_conf = [on_error |-> "", max_workers |-> 1]
    /\ now = 0
    /\ InitRunner
    /\ api = ApiIdle
    /\ connectors = ConnectorsLoaded
    /\ providers = ProvidersLoaded
    /\ updates = NoUpdates
    /\ lib \in { [op |-> "sanitize", given |-> m, meta |-> m, out |-> None,
                   again |-> None] : m \in Metas }
SanitizeNext == SanitizeCall \/ SanitizeAgain
SanitizeSpec == InitSanitize /\ [][SanitizeNext]_vars

\* the calls of deep_merge on the documents of Docs; given are the documents
\* as the caller loaded them
InitMerge ==
    /\ steps = << >>
    /\ runner_conf = [on_error |-> "", max_workers |-> 1]
    /\ now = 0
    /\ InitRunner
    /\ api = ApiIdle
    /\ connectors = ConnectorsLoaded
    /\ providers = ProvidersLoaded
    /\ updates = NoUpdates
    /\ lib \in { [op |-> "merge", given |-> << a, b, c >>, a |-> a, b |-> b, c |-> c,
                   ab |-> None, ba |-> None, bc |-> None, ab_c |-> None,
                   a_bc |-> None] : a \in Docs, b \in Docs, c \in Docs }
MergeNext == MergePairs \/ MergeTriples
MergeSpec == InitMerge /\ [][MergeNext]_vars

\* the runs of the flows whose second step is independent and whose last step
\* depends on the first, for the ways of writing a policy on the last step and
\* on the runner
PolicyWritings == {"", "skip", "SKIP", "CONTINUE", "Fail", "bogus"}
PolicyFlows ==
    { << sa, Step("b", {}, InEmpty, "", OutV), Step("c", {"a"}, InEmpty, e, << >>) >> :
        sa \in StepsA, e \in PolicyWritings }
InitPolicy ==
    /\ steps \in PolicyFlows
    /\ runner_conf \in [on_error : PolicyWritings, max_workers : {MaxWorkers}]
    /\ now = 0
    /\ InitState
PolicySpec == InitPolicy /\ [][Next]_vars

\* --------------------------------------------------------------------------
\* Vocabulary of the claims
\* --------------------------------------------------------------------------
StepNames == {"a", "b", "c"}

\* the StepStatus of n, pending while run() has not created the entry
status_of(n) == IF n \in DOMAIN status.steps THEN status.steps[n] ELSE StepStatus(n)
state_of(n) == status_of(n).state

\* the effective on_error policy of a step: its own on_error if set, else the
\* runner's on_error if set, else fail
effective_policy(n) ==
    IF name_to_step[n].on_error # "" THEN name_to_step[n].on_error
    ELSE IF runner_conf.on_error # "" THEN runner_conf.on_error
    ELSE "fail"

\* deps of a step: explicit depends_on plus the flows.<NAME>. references of its
\* input
deps_of(n) == infer_deps(name_to_step[n])

\* direct dependents of a step
dependents_of(n) == { d \in Names : n \in deps_of(d) }

\* transitive dependents of the steps of S
RECURSIVE descendants(_)
descendants(S) ==
    LET more == S \cup UNION { dependents_of(n) : n \in S }
    IN  IF more = S THEN S ELSE descendants(more)

run_over == pc \in {"done", "raised"}

\* the names a step declares in its output list
declared_names(s) ==
    { v \in {"v", "w"} : \E i \in DOMAIN s.output : s.output[i].name = Some(v) }

\* --------------------------------------------------------------------------
\* C1: a step leaves pending for running only when each of its deps is
\* succeeded, or is failed while the step's own effective policy is continue
\* --------------------------------------------------------------------------
C1_StartsAfterDeps ==
    [][ \A n \in Names :
          (state_of(n) = "pending" /\ state_of(n)' = "running")
          => \A d \in deps_of(n) :
               \/ state_of(d) = "succeeded"
               \/ state_of(d) = "failed" /\ effective_policy(n) = "continue" ]_vars

C1_Witness ==
    \E n \in Names :
        /\ state_of(n) = "running"
        /\ \E d \in deps_of(n) : state_of(d) = "failed"
        /\ \E d \in deps_of(n) : state_of(d) = "succeeded"

\* --------------------------------------------------------------------------
\* C2: the flows snapshot a step's task takes holds flows[D] of every
\* dependency D that succeeded, and D's commit precedes the step's submission
\* --------------------------------------------------------------------------
C2_SnapshotHasDeps ==
    \A n \in DOMAIN task :
        \A d \in deps_of(n) :
            state_of(d) = "succeeded"
            => /\ d \in DOMAIN flows
               /\ ~ IsNone(task[n].flows_snapshot)
                    => /\ d \in DOMAIN Val(task[n].flows_snapshot)
                       /\ Val(task[n].flows_snapshot)[d] = declared_names(name_to_step[d])

C2_Witness ==
    \E n \in DOMAIN task :
        /\ ~ IsNone(task[n].flows_snapshot)
        /\ \E d \in deps_of(n) :
             /\ state_of(d) = "succeeded"
             /\ d \in DOMAIN Val(task[n].flows_snapshot)
        /\ \E m \in Names \ deps_of(n) :
             m # n /\ state_of(m) = "succeeded" /\ m \notin DOMAIN Val(task[n].flows_snapshot)

\* --------------------------------------------------------------------------
\* C3: a step's status changes only along pending -> running, running ->
\* succeeded, running -> failed and pending -> skipped, each written once: a
\* step in a final state is never written again
\* --------------------------------------------------------------------------
C3_TransitionsOnce ==
    [][ \A n \in DOMAIN status.steps :
          status.steps[n] # status.steps[n]'
          => \/ state_of(n) = "pending" /\ state_of(n)' \in {"running", "skipped"}
             \/ state_of(n) = "running" /\ state_of(n)' \in {"succeeded", "failed"} ]_vars

\* --------------------------------------------------------------------------
\* C4: flows has an entry for a step exactly when the step's state is
\* succeeded, in every state visible under the lock
\* --------------------------------------------------------------------------
C4_FlowsIffSucceeded ==
    \A n \in Names : n \in DOMAIN flows <=> state_of(n) = "succeeded"

\* --------------------------------------------------------------------------
\* C5: once the abort flag is set run() submits nothing more, returns
\* normally and records RunStatus.ended_at
\* --------------------------------------------------------------------------
C5_AbortReturnsNormally ==
    error_occurred
    => /\ pc # "raised"
       /\ IsNone(raised)
       /\ pc = "done" => ~ IsNone(status.ended_at)

\* --------------------------------------------------------------------------
\* C6: once the abort flag is set, a pending step stays pending
\* --------------------------------------------------------------------------
C6_PendingStaysPending ==
    [][ error_occurred
        => \A n \in Names : state_of(n) = "pending" => state_of(n)' = "pending" ]_vars

\* C6 as amended: once the abort flag is set, a pending step is never marked
\* skipped, and a pending step whose task was not submitted stays pending and
\* is never submitted
C6_UnsubmittedStaysPending ==
    [][ error_occurred
        => \A n \in Names :
             state_of(n) = "pending"
             => /\ state_of(n)' \in {"pending", "running"}
                /\ n \notin DOMAIN task
                     => state_of(n)' = "pending" /\ n \notin DOMAIN task' ]_vars

C6_Witness ==
    /\ error_occurred
    /\ pc = "done"
    /\ \E n \in Names : state_of(n) = "pending" /\ n \notin DOMAIN task
    /\ \E n \in Names : state_of(n) = "succeeded"

\* --------------------------------------------------------------------------
\* C7: the abort flag is set exactly when a failed step has a direct dependent
\* with effective policy fail; without it every step of the flow finishes
\* --------------------------------------------------------------------------
fail_dependent(f) ==
    \E d \in dependents_of(f) : effective_policy(d) \notin {"skip", "continue"}

C7_AbortIffFailDependent ==
    /\ error_occurred => \E f \in Names : state_of(f) = "failed" /\ fail_dependent(f)
    /\ (pc = "done" /\ ~ error_occurred)
         => /\ \A f \in Names : state_of(f) = "failed" => ~ fail_dependent(f)
            /\ \A n \in Names : deps_of(n) = {} => state_of(n) \in {"succeeded", "failed"}

C7_Witness ==
    /\ pc = "done"
    /\ ~ error_occurred
    /\ \E f \in Names :
         /\ state_of(f) = "failed"
         /\ name_to_step[f].on_error = "fail"
         /\ dependents_of(f) # {}
    /\ \E n \in Names : state_of(n) = "succeeded"

\* --------------------------------------------------------------------------
\* C8: when a failed step has a direct dependent D with effective policy skip,
\* at the end of the run D and all its transitive dependents are skipped, with
\* started_at null and ended_at set, and were never submitted
\* --------------------------------------------------------------------------
skipped_unrun(n) ==
    /\ state_of(n) = "skipped"
    /\ IsNone(status_of(n).started_at)
    /\ ~ IsNone(status_of(n).ended_at)
    /\ n \notin DOMAIN task
    /\ submitted[n] = 0
    /\ in_degree[n] = -1

skip_cascade ==
    \A f \in Names : \A d \in dependents_of(f) :
        (state_of(f) = "failed" /\ effective_policy(d) = "skip")
        => \A n \in descendants({d}) : skipped_unrun(n)

C8_SkipCascade == run_over => skip_cascade

\* C8 as amended: the same, for a run that ends without the abort flag set
C8_SkipCascadeUnlessAbort == (run_over /\ ~ error_occurred) => skip_cascade

C8_Witness ==
    /\ pc = "done"
    /\ ~ error_occurred
    /\ \E f \in Names : \E d \in dependents_of(f) :
         /\ state_of(f) = "failed"
         /\ effective_policy(d) = "skip"
         /\ \E n \in descendants({d}) \ {d} :
              effective_policy(n) = "continue" /\ skipped_unrun(n)

\* --------------------------------------------------------------------------
\* C9: a dependent D with effective policy continue of a failed step is
\* released as on success: once all its dependencies have completed it runs,
\* unless the run is aborted
\* --------------------------------------------------------------------------
C9_ContinueRuns ==
    \A d \in StepNames :
        ( /\ d \in DOMAIN status.steps
          /\ effective_policy(d) = "continue"
          /\ \E p \in deps_of(d) : state_of(p) = "failed"
          /\ \A p \in deps_of(d) : state_of(p) \in {"succeeded", "failed"} )
        ~> ( \/ error_occurred
             \/ state_of(d) \in {"running", "succeeded", "failed"} )

C9_Witness ==
    \E d \in Names :
        /\ effective_policy(d) = "continue"
        /\ \E p \in deps_of(d) : state_of(p) = "failed"
        /\ state_of(d) = "succeeded"
        /\ ~ error_occurred
        /\ pc = "done"

\* --------------------------------------------------------------------------
\* C10: a dependency that names no step makes run() raise a configuration
\* error that names every offending step with all its missing names, before
\* any task is submitted
\* --------------------------------------------------------------------------
missing_of(n) == { d \in deps_of(n) : \A i \in DOMAIN steps : steps[i].name # d }
offending == { n \in Names : missing_of(n) # {} }

C10_InvalidDepsRaise ==
    pc \notin {"start", "validate"}
    => IF offending # {}
       THEN /\ pc = "raised"
            /\ Val(raised).type = "ValueError"
            /\ DOMAIN Val(raised).invalid_deps = offending
            /\ \A n \in offending : Val(raised).invalid_deps[n] = missing_of(n)
            /\ task = << >>
            /\ work_queue = << >>
            /\ status.steps = << >>
       ELSE IsNone(raised) \/ Val(raised).type # "ValueError"

C10_Witness ==
    /\ pc = "raised"
    /\ Val(raised).type = "ValueError"
    /\ Cardinality(offending) = 2
    /\ \E n \in offending : Cardinality(missing_of(n)) = 2
    /\ \E n \in offending : "A" \in missing_of(n)

\* --------------------------------------------------------------------------
\* C11: when run() fails with a configuration error the runner is as it was
\* before the call: no StepStatus entries, started_at and ended_at of the run
\* null, flows empty
\* --------------------------------------------------------------------------
C11_ConfigErrorLeavesState ==
    (pc = "raised" /\ ~ IsNone(raised) /\ Val(raised).type = "ValueError")
    => /\ status.steps = << >>
       /\ IsNone(status.started_at)
       /\ IsNone(status.ended_at)
       /\ flows = << >>

\* --------------------------------------------------------------------------
\* C12: a flow with a step whose source type is not registered fails as a
\* configuration error before any step starts: no step leaves pending and no
\* provider is called
\* --------------------------------------------------------------------------
unknown_source == \E n \in Names : ~ create_provider(src_type(name_to_step[n]))

C12_UnknownSourceStartsNothing ==
    (unknown_source /\ pc \notin {"start", "validate"})
    => /\ pc = "raised"
       /\ \A n \in Names : state_of(n) = "pending"
       /\ \A n \in DOMAIN task : task[n].pc = "queued"

\* --------------------------------------------------------------------------
\* C13: for a flow whose dependency graph has a cycle run() reports a failure,
\* and no member of the cycle ever leaves pending
\* --------------------------------------------------------------------------
on_cycle(n) == n \in descendants(dependents_of(n))

C13_CycleReported ==
    \A n \in Names :
        on_cycle(n)
        => /\ state_of(n) = "pending"
           /\ run_over => ~ IsNone(raised)

\* --------------------------------------------------------------------------
\* C14: run() terminates for every configuration, cyclic flows and flows with
\* failing steps included, when every provider call returns
\* --------------------------------------------------------------------------
C14_RunTerminates == <>(pc \in {"done", "raised"})

C14_Witness ==
    /\ pc = "done"
    /\ \E n \in Names : on_cycle(n) /\ state_of(n) = "pending"
    /\ \E n \in Names : state_of(n) = "failed"
    /\ \E n \in Names : state_of(n) = "succeeded"

\* --------------------------------------------------------------------------
\* C15: when run() has terminated every step is either skipped with started_at
\* null, or succeeded or failed with started_at set
\* --------------------------------------------------------------------------
terminal_shape(n) ==
    \/ state_of(n) = "skipped" /\ IsNone(status_of(n).started_at)
    \/ state_of(n) \in {"succeeded", "failed"} /\ ~ IsNone(status_of(n).started_at)

\* the steps on a dependency cycle and the steps that depend on one
cycle_blocked(n) == \E m \in Names : on_cycle(m) /\ n \in descendants({m})

C15_TerminalShapes == run_over => \A n \in Names : terminal_shape(n)

\* C15 as amended: when run() has returned normally without the abort flag
\* set, every step that is not on or behind a dependency cycle is either
\* skipped with started_at null, or succeeded or failed with started_at set;
\* the steps on or behind a cycle are pending or skipped
C15_TerminalShapesUnlessAbort ==
    (pc = "done" /\ ~ error_occurred)
    => \A n \in Names :
         IF cycle_blocked(n)
         THEN state_of(n) \in {"pending", "skipped"} /\ IsNone(status_of(n).started_at)
         ELSE terminal_shape(n)

C15_Witness ==
    /\ pc = "done"
    /\ ~ error_occurred
    /\ \E n \in Names : state_of(n) = "skipped" /\ IsNone(status_of(n).started_at)
    /\ \E n \in Names : state_of(n) = "failed" /\ ~ IsNone(status_of(n).started_at)
    /\ \E n \in Names : state_of(n) = "succeeded" /\ ~ IsNone(status_of(n).started_at)

\* --------------------------------------------------------------------------
\* C16: for every step that ends succeeded, every dependency was succeeded at
\* the moment the step went to running
\* --------------------------------------------------------------------------
C16_DepsSucceededAtStart ==
    \A n \in DOMAIN task :
        state_of(n) = "succeeded"
        => \A d \in deps_of(n) : task[n].deps_at_start[d] = "succeeded"

\* C16 as amended: every dependency was, at that moment, succeeded, or failed
\* while the step's effective policy is continue
C16_DepsDoneAtStart ==
    \A n \in DOMAIN task :
        state_of(n) = "succeeded"
        => /\ DOMAIN task[n].deps_at_start = deps_of(n)
           /\ \A d \in deps_of(n) :
                \/ task[n].deps_at_start[d] = "succeeded"
                \/ /\ task[n].deps_at_start[d] = "failed"
                   /\ effective_policy(n) = "continue"

C16_Witness ==
    \E n \in DOMAIN task :
        /\ state_of(n) = "succeeded"
        /\ \E d \in deps_of(n) : task[n].deps_at_start[d] = "failed"
        /\ \E d \in deps_of(n) : task[n].deps_at_start[d] = "succeeded"

\* --------------------------------------------------------------------------
\* C17: in every state visible under the lock a running step has started_at
\* set and ended_at null, a succeeded or failed step has both set with
\* ended_at >= started_at, and a pending step has both null
\* --------------------------------------------------------------------------
C17_TimestampsMatchState ==
    \A n \in DOMAIN status.steps :
        LET st == status.steps[n]
        IN  /\ st.state = "running"
                 => ~ IsNone(st.started_at) /\ IsNone(st.ended_at)
            /\ st.state \in {"succeeded", "failed"}
                 => /\ ~ IsNone(st.started_at)
                    /\ ~ IsNone(st.ended_at)
                    /\ Val(st.ended_at) >= Val(st.started_at)
            /\ st.state = "pending"
                 => IsNone(st.started_at) /\ IsNone(st.ended_at)

C17_Witness ==
    /\ \E n \in DOMAIN status.steps :
         /\ status.steps[n].state = "succeeded"
         /\ Val(status.steps[n].ended_at) > Val(status.steps[n].started_at)
    /\ \E n \in DOMAIN status.steps : status.steps[n].state = "running"
    /\ \E n \in DOMAIN status.steps : status.steps[n].state = "pending"

\* --------------------------------------------------------------------------
\* C18: a step that ran started no earlier than each of its dependencies that
\* ran ended: S.started_at >= D.ended_at
\* --------------------------------------------------------------------------
C18_StartsAfterDepsEnd ==
    \A n \in Names : \A d \in deps_of(n) :
        (~ IsNone(status_of(n).started_at) /\ ~ IsNone(status_of(d).started_at))
        => /\ ~ IsNone(status_of(d).ended_at)
           /\ Val(status_of(n).started_at) >= Val(status_of(d).ended_at)

C18_Witness ==
    \E n \in Names : \E d, e \in deps_of(n) :
        /\ d # e
        /\ ~ IsNone(status_of(n).started_at)
        /\ ~ IsNone(status_of(d).ended_at)
        /\ ~ IsNone(status_of(e).ended_at)
        /\ Val(status_of(d).ended_at) < Val(status_of(e).ended_at)
        /\ Val(status_of(n).started_at) = Val(status_of(e).ended_at)

\* --------------------------------------------------------------------------
\* C19: each step is submitted at most once and its task runs at most once:
\* the provider is called at most once, flows[S] is written at most once and a
\* failed step is never retried
\* --------------------------------------------------------------------------
task_rank(p) ==
    CASE p = "queued" -> 0 [] p = "started" -> 1 [] p = "snapshot" -> 2
      [] p = "committed" -> 3 [] OTHER -> 4

C19_AtMostOnce ==
    /\ [](\A n \in DOMAIN submitted : submitted[n] <= 1)
    /\ [][ \A n \in DOMAIN task :
              /\ n \in DOMAIN task'
              /\ task_rank(task'[n].pc) >= task_rank(task[n].pc)
              /\ n \in DOMAIN flows
                   => /\ n \in DOMAIN flows'
                      /\ ~ (task[n].pc = "snapshot" /\ task'[n].pc = "committed")
              /\ state_of(n) = "failed" => state_of(n)' = "failed" ]_vars

C19_Witness ==
    /\ pc = "done"
    /\ \E n \in Names :
         /\ Cardinality(deps_of(n)) = 2
         /\ submitted[n] = 1
         /\ task[n].pc = "done"
         /\ n \in DOMAIN flows
    /\ \E f \in Names : state_of(f) = "failed" /\ submitted[f] = 1

\* --------------------------------------------------------------------------
\* C20: at every moment the number of steps in state running is at most
\* max_workers, the configured value or the default
\* --------------------------------------------------------------------------
running_steps == { n \in Names : state_of(n) = "running" }

C20_RunningAtMostWorkers == Cardinality(running_steps) <= max_workers

C20_Witness ==
    /\ max_workers = 2
    /\ Cardinality(running_steps) = max_workers
    /\ work_queue # << >>

\* --------------------------------------------------------------------------
\* C21: the steps that are ready together are all submitted before the
\* scheduler waits for a completion, so that independent steps, and the
\* children released by one parent, can be running at the same time
\* --------------------------------------------------------------------------
C21_ReadySubmittedBeforeWait ==
    (pc = "loop" /\ ~ error_occurred)
    => /\ ready_q = << >>
       /\ \A n \in Names : in_degree[n] = 0 => n \in DOMAIN task

C21_Witness ==
    \E parent \in Names : \E x, y \in dependents_of(parent) :
        /\ x # y
        /\ state_of(parent) = "succeeded"
        /\ state_of(x) = "running"
        /\ state_of(y) = "running"

\* --------------------------------------------------------------------------
\* C22: a GET /status response issued during a run is an atomic snapshot: it
\* equals the step states, timestamps and output-key lists of one single
\* instant of the run, and the request never fails because the runner changed
\* the state during the read
\* --------------------------------------------------------------------------
\* the steps of the response a handler would build from the state of this
\* instant alone
observable ==
    [ k \in DOMAIN status.steps |->
        [state |-> status.steps[k].state,
         started_at |-> status.steps[k].started_at,
         ended_at |-> status.steps[k].ended_at,
         notes |-> IF truthy(status.steps[k].error)
                   THEN << Val(status.steps[k].error) >> ELSE << >>,
         outputs |-> IF k \in DOMAIN flows THEN flows[k] ELSE {}] ]

\* what the steps of one instant have in common: a succeeded step has its
\* declared outputs, only a running or succeeded step has outputs, only a
\* failed step has notes, and the dependencies of a step that has started are
\* succeeded or failed
snapshot_shape(info) ==
    \A k \in DOMAIN info :
        /\ info[k].state = "succeeded"
           => info[k].outputs = declared_names(name_to_step[k])
        /\ info[k].outputs # {} => info[k].state \in {"running", "succeeded"}
        /\ info[k].notes # << >> => info[k].state = "failed"
        /\ info[k].state \in {"running", "succeeded", "failed"}
           => \A d \in infer_deps(name_to_step[k]) \cap DOMAIN info :
                  info[d].state \in {"succeeded", "failed"}

C22_StatusIsSnapshot ==
    ~ IsNone(api.response)
    => /\ Val(api.response).status_code = 200
       /\ snapshot_shape(Val(api.response).steps)

\* --------------------------------------------------------------------------
\* C23: in every /status response, also one taken while steps change state,
\* completed_steps is the number of steps that are succeeded or failed in
\* that response and total_steps the number of entries of its steps; after a
\* one-step flow has completed, completed_steps = total_steps = 1
\* --------------------------------------------------------------------------
\* the 200 response of the request, if it has been given
responded == ~ IsNone(api.response) /\ Val(api.response).status_code = 200

C23_CountsMatchResponse ==
    responded
    => LET r == Val(api.response)
       IN  /\ r.completed_steps =
                Cardinality({ k \in DOMAIN r.steps :
                                r.steps[k].state \in {"succeeded", "failed"} })
           /\ r.total_steps = Cardinality(DOMAIN r.steps)
           /\ Len(steps) = 1 /\ api.after_run
              => r.completed_steps = 1 /\ r.total_steps = 1

\* a response built while steps changed state: step a was read running, the
\* step that depends on it was read after it had started, and one step counts
\* as completed
C23_Witness ==
    /\ responded
    /\ Val(api.response).total_steps = 3
    /\ Val(api.response).completed_steps = 1
    /\ Val(api.response).steps["a"].state = "running"
    /\ Val(api.response).steps["c"].state # "pending"

\* --------------------------------------------------------------------------
\* C24: for every succeeded step the key set of flows[S] is exactly the set of
\* names declared in S.output, empty when S declares no output
\* --------------------------------------------------------------------------
C24_FlowsKeysAreDeclared ==
    \A n \in Names :
        state_of(n) = "succeeded"
        => n \in DOMAIN flows /\ flows[n] = declared_names(name_to_step[n])

C24_Witness ==
    /\ \E n \in Names :
         /\ state_of(n) = "succeeded"
         /\ Len(name_to_step[n].output) > Cardinality(flows[n])
         /\ Cardinality(flows[n]) = 2
    /\ \E n \in Names :
         /\ state_of(n) = "succeeded"
         /\ name_to_step[n].output = << >>
         /\ flows[n] = {}

\* --------------------------------------------------------------------------
\* C25: when the provider reports no success or raises, the step ends failed,
\* flows[S] is never written, StepStatus.error holds the joined notes or the
\* text of the exception, and the policies of its dependents are applied
\* --------------------------------------------------------------------------
\* the error text expected for the failing providers of the flows
expected_error(n) ==
    CASE n = "a" -> "n1; n2"
      [] n = "b" -> ""
      [] OTHER   -> "provider reported failure (code=2)"

\* the provider of n was called and did not succeed
provider_failed(n) ==
    /\ n \in DOMAIN task
    /\ task[n].pc = "done"
    /\ ~ task[n].ok
    /\ ~ IsNone(task[n].flows_snapshot)
    /\ payload_renders(name_to_step[n], Val(task[n].flows_snapshot))

C25_ProviderFailureFailsStep ==
    \A n \in Names :
        provider_failed(n)
        => /\ state_of(n) = "failed"
           /\ n \notin DOMAIN flows
           /\ status_of(n).error = Some(expected_error(n))
           /\ (pc = "done" /\ ~ error_occurred)
                => \A d \in dependents_of(n) :
                     /\ effective_policy(d) \in {"skip", "continue"}
                     /\ effective_policy(d) = "skip" => state_of(d) = "skipped"
                     /\ ( /\ effective_policy(d) = "continue"
                          /\ \A q \in deps_of(d) : state_of(q) \in {"succeeded", "failed"} )
                          => state_of(d) \in {"succeeded", "failed"}

C25_Witness ==
    /\ pc = "done"
    /\ ~ error_occurred
    /\ provider_failed("a")
    /\ status_of("a").error = Some("n1; n2")
    /\ \E d \in dependents_of("a") : state_of(d) = "skipped"
    /\ \E d \in dependents_of("a") :
         effective_policy(d) = "continue" /\ state_of(d) = "succeeded"

\* --------------------------------------------------------------------------
\* C26: at every moment StepStatus.error is non-null only for a step in state
\* failed, and /status reports notes = [error] for such a step and notes = []
\* for every step in any other state
\* --------------------------------------------------------------------------
C26_NotesEchoError ==
    /\ \A n \in DOMAIN status.steps :
           ~ IsNone(status.steps[n].error) => status.steps[n].state = "failed"
    /\ responded
       => \A k \in DOMAIN Val(api.response).steps :
              Val(api.response).steps[k].notes =
                  IF Val(api.response).steps[k].state = "failed"
                  THEN << Val(status.steps[k].error) >> ELSE << >>

\* --------------------------------------------------------------------------
\* C27: the provider of a step is constructed from the source configuration
\* in which every string with a template marker has been rendered against the
\* step's {flows, sources}, and every other string is passed unchanged
\* --------------------------------------------------------------------------
\* "{{" in t or "{%" in t
has_marker(t) ==
    \E i \in 1 .. (Len(t) - 1) : t[i] = "{" /\ t[i + 1] \in {"{", "%"}

C27_ProviderGetsRenderedConfig ==
    \A n \in DOMAIN task :
        ~ IsNone(task[n].provider_cfg)
        => IF has_marker(name_to_step[n].configuration)
           THEN ~ has_marker(Val(task[n].provider_cfg))
           ELSE Val(task[n].provider_cfg) = name_to_step[n].configuration

\* --------------------------------------------------------------------------
\* C28: deps[S] is the union of S.depends_on and of every NAME for which
\* flows.<NAME>. occurs in S.input.value or S.input.template; a step that
\* refers to flows.X. in its input is never started before X has completed
\* --------------------------------------------------------------------------
\* the NAMEs for which "flows." NAME "." occurs in the text t
pattern_names(t) ==
    { Join(SubSeq(t, ij[1] + 6, ij[2])) :
        ij \in { p \in (1 .. Len(t)) \X (1 .. Len(t)) :
                   /\ p[1] + 6 <= p[2]
                   /\ p[2] + 1 <= Len(t)
                   /\ SubSeq(t, p[1], p[1] + 5) = FlowsPrefix
                   /\ \A k \in (p[1] + 6) .. p[2] : t[k] \in IdentChars
                   /\ t[p[2] + 1] = "." } }

input_names(n) ==
    LET inp == name_to_step[n].input
    IN  (IF IsNone(inp.value) THEN {} ELSE pattern_names(Val(inp.value)))
            \cup (IF IsNone(inp.template) THEN {} ELSE pattern_names(Val(inp.template)))

expected_deps(n) == name_to_step[n].depends_on \cup input_names(n)

C28_DepsAreDeclaredAndReferenced ==
    /\ pc \notin {"start", "validate", "raised"}
         => \A n \in Names : deps[n] = expected_deps(n)
    /\ (pc = "raised" /\ Val(raised).type = "ValueError")
         => \A n \in DOMAIN Val(raised).invalid_deps :
              Val(raised).invalid_deps[n] = expected_deps(n) \ Names
    /\ \A n \in Names :
         state_of(n) \in {"running", "succeeded", "failed"}
         => \A x \in input_names(n) : state_of(x) \in {"succeeded", "failed"}

C28_Witness ==
    \E n \in Names :
        /\ name_to_step[n].depends_on # {}
        /\ input_names(n) # {}
        /\ input_names(n) \cap name_to_step[n].depends_on = {}
        /\ state_of(n) = "succeeded"
        /\ deps[n] = name_to_step[n].depends_on \cup input_names(n)

\* --------------------------------------------------------------------------
\* C29: for every sequence of register_connector and create_connector calls,
\* create_connector(t, cfg) invokes the constructor most recently registered
\* at runtime for t whenever one was registered, also when a discovered plugin
\* has the same name, whether discovery ran before or after the registration
\* --------------------------------------------------------------------------
C29_RuntimeRegistrationWins ==
    ~ IsNone(connectors.created)
    => LET c == Val(connectors.created)
       IN  ~ IsNone(c.registered) => c.constructor = Val(c.registered)

\* --------------------------------------------------------------------------
\* C30: the plugin discovery pass runs at most once per process, also when
\* create_provider is first called by several worker threads at once; and a
\* caller never gets an unknown-provider error for a type that discovery
\* provides
\* --------------------------------------------------------------------------
C30_DiscoveryOnce ==
    /\ providers.passes <= 1
    /\ \A t \in Callers :
           providers.call[t].result = "ImportError"
           => providers.call[t].type \notin entry_point_providers

\* --------------------------------------------------------------------------
\* C31: RunStatus is final once run() has returned: after RunStatus.ended_at
\* is set no StepStatus field and no entry of flows changes any more, and
\* every step's ended_at is <= RunStatus.ended_at
\* --------------------------------------------------------------------------
\* no step ended after the run
ended_before_run ==
    \A n \in DOMAIN status.steps :
        ~ IsNone(status.steps[n].ended_at)
        => Val(status.steps[n].ended_at) <= Val(status.ended_at)

C31_FinalAfterEnd ==
    /\ [](~ IsNone(status.ended_at) => ended_before_run)
    /\ [][~ IsNone(status.ended_at)
            => status.steps' = status.steps /\ flows' = flows]_vars

\* the same for the runs that return without the abort flag set; after an
\* abort the abandoned tasks still complete in the background
C31_FinalUnlessAbort ==
    /\ []((~ IsNone(status.ended_at) /\ ~ error_occurred) => ended_before_run)
    /\ [][(~ IsNone(status.ended_at) /\ ~ error_occurred)
            => status.steps' = status.steps /\ flows' = flows]_vars

\* a run that returned without abort after a step succeeded and a step failed
C31_Witness ==
    /\ pc = "done"
    /\ ~ IsNone(status.ended_at)
    /\ ~ error_occurred
    /\ \E n \in DOMAIN flows : state_of(n) = "succeeded"
    /\ \E n \in Names : state_of(n) = "failed"

\* --------------------------------------------------------------------------
\* C32: when run() returns without the abort flag set on an acyclic flow,
\* every step is succeeded, failed or skipped: none is left pending or running
\* --------------------------------------------------------------------------
acyclic == \A n \in Names : ~ on_cycle(n)

C32_AllTerminalUnlessAbort ==
    (pc = "done" /\ ~ error_occurred /\ acyclic)
    => \A n \in Names : state_of(n) \in {"succeeded", "failed", "skipped"}

\* a run without abort in which the last step ran after both of its
\* dependencies, one of which failed
C32_Witness ==
    /\ pc = "done"
    /\ ~ error_occurred
    /\ acyclic
    /\ Names = StepNames
    /\ deps_of("c") = {"a", "b"}
    /\ \E n \in {"a", "b"} : state_of(n) = "failed"
    /\ state_of("c") \in {"succeeded", "failed"}

\* --------------------------------------------------------------------------
\* C33: concurrent calls of _update_step_status on the same step are atomic:
\* after any interleaving of calls that each set state and started_at, the
\* step's (state, started_at) is the pair written by one single call, and a
\* call for an unknown step name changes nothing
\* --------------------------------------------------------------------------
\* the pair of the step is the one a single call wrote, or the initial one
one_call_pair(st) ==
    \/ st.state = "pending" /\ IsNone(st.started_at)
    \/ \E t \in Callers, ts \in UpdateTimes :
          st.state = state_label(t, ts) /\ st.started_at = Some(ts)

C33_UpdatesAreAtomic ==
    /\ [](updates.lock = 0 => one_call_pair(status.steps["a"]))
    /\ [][status' # status
            => \E t \in Callers : /\ updates.lock = t
                                  /\ updates.call[t].name \in DOMAIN status.steps]_vars

\* two calls on the step have completed one after the other, and a call for
\* an unknown name holds the lock
C33_Witness ==
    /\ \E t \in Callers :
          /\ updates.lock = t
          /\ updates.call[t].name = "zz"
          /\ updates.call[t].pc = "release"
          /\ \E u \in Callers \ {t}, ts \in UpdateTimes :
                /\ status.steps["a"].state = state_label(u, ts)
                /\ status.steps["a"].started_at = Some(ts)
                /\ updates.call[u].pc = "acquire"
                /\ updates.call[u].name = "a"

\* --------------------------------------------------------------------------
\* C34: the run command exits with code 0 when the run succeeded and with a
\* non-zero code when the configuration is invalid or when the abort flag was
\* set by a failing step with a fail-policy dependent
\* --------------------------------------------------------------------------
\* cli.run without --status-port, once r.run() has ended: the command prints
\* the flows and returns, which is exit code 0; an exception that run() raised
\* leaves the command, which is exit code 1
cli_exit_code == IF IsNone(raised) THEN 0 ELSE 1

C34_ExitCode ==
    run_over
    => /\ (\A n \in Names : state_of(n) = "succeeded") => cli_exit_code = 0
       /\ invalid_deps # << >> => cli_exit_code # 0
       /\ error_occurred => cli_exit_code # 0

\* --------------------------------------------------------------------------
\* C35: redaction of meta is idempotent and does not touch its input:
\* sanitize_meta(sanitize_meta(m)) = sanitize_meta(m); every key whose
\* lowercased form contains password, secret, token, bind_password or pw maps
\* to '<redacted>', all other keys keep their values, and m is left unchanged
\* --------------------------------------------------------------------------
\* the keys of MetaKeys whose lowercased form contains a redact key: PW,
\* Token (token) and upward (pw)
SecretKeys ==
    { << "P", "W" >>, << "T", "o", "k", "e", "n" >>,
      << "u", "p", "w", "a", "r", "d" >> }

C35_RedactionIdempotent ==
    (lib.op = "sanitize" /\ ~ IsNone(lib.out))
    => /\ lib.meta = lib.given
       /\ DOMAIN Val(lib.out) = DOMAIN lib.given
       /\ \A k \in DOMAIN lib.given :
              Val(lib.out)[k] = IF k \in SecretKeys THEN "<redacted>" ELSE lib.given[k]
       /\ ~ IsNone(lib.again) => Val(lib.again) = Val(lib.out)

\* a map with a secret key and a plain key, each holding a value, has been
\* redacted twice
C35_Witness ==
    /\ lib.op = "sanitize"
    /\ ~ IsNone(lib.again)
    /\ << "P", "W" >> \in DOMAIN lib.given
    /\ lib.given[<< "P", "W" >>] = "v"
    /\ << "t", "o", "k" >> \in DOMAIN lib.given
    /\ lib.given[<< "t", "o", "k" >>] = "v"
    /\ Val(lib.again)[<< "P", "W" >>] = "<redacted>"

\* --------------------------------------------------------------------------
\* C36: deep_merge is associative on maps with disjoint keys and commutative
\* on maps whose shared leaves are equal; on a conflict the later document
\* wins for scalars, nested maps are merged recursively, lists are replaced
\* as a whole, and neither argument is mutated
\* --------------------------------------------------------------------------
\* a and b have disjoint keys: a key of both holds a map in both, and these
\* maps have no key in common
disjoint_keys(a, b) ==
    \A k \in DOMAIN a \cap DOMAIN b :
        /\ a[k].t = "dict"
        /\ b[k].t = "dict"
        /\ DOMAIN a[k].v \cap DOMAIN b[k].v = {}

\* the shared leaves of a and b are equal: a key of both holds the same
\* value in both, or a map in both whose shared keys hold the same values
equal_leaves(a, b) ==
    \A k \in DOMAIN a \cap DOMAIN b :
        \/ a[k] = b[k]
        \/ /\ a[k].t = "dict"
           /\ b[k].t = "dict"
           /\ \A n \in DOMAIN a[k].v \cap DOMAIN b[k].v : a[k].v[n] = b[k].v[n]

\* m is the merge of a and the later document b
merged(m, a, b) ==
    /\ DOMAIN m = DOMAIN a \cup DOMAIN b
    /\ \A k \in DOMAIN a \ DOMAIN b : m[k] = a[k]
    /\ \A k \in DOMAIN b \ DOMAIN a : m[k] = b[k]
    /\ \A k \in DOMAIN a \cap DOMAIN b :
           IF a[k].t = "dict" /\ b[k].t = "dict"
           THEN /\ m[k].t = "dict"
                /\ DOMAIN m[k].v = DOMAIN a[k].v \cup DOMAIN b[k].v
                /\ \A n \in DOMAIN m[k].v :
                       m[k].v[n] = IF n \in DOMAIN b[k].v THEN b[k].v[n]
                                   ELSE a[k].v[n]
           ELSE m[k] = b[k]

C36_DeepMergeLaws ==
    (lib.op = "merge" /\ ~ IsNone(lib.ab))
    => /\ << lib.a, lib.b, lib.c >> = lib.given
       /\ merged(Val(lib.ab), lib.given[1], lib.given[2])
       /\ equal_leaves(lib.a, lib.b) => Val(lib.ab) = Val(lib.ba)
       /\ (/\ ~ IsNone(lib.ab_c)
           /\ disjoint_keys(lib.a, lib.b)
           /\ disjoint_keys(lib.b, lib.c)
           /\ disjoint_keys(lib.a, lib.c)) => Val(lib.ab_c) = Val(lib.a_bc)

\* three documents with disjoint keys, two of them with maps under the same
\* key, have been merged in both groupings
C36_Witness ==
    /\ lib.op = "merge"
    /\ ~ IsNone(lib.ab_c)
    /\ disjoint_keys(lib.a, lib.b)
    /\ disjoint_keys(lib.b, lib.c)
    /\ disjoint_keys(lib.a, lib.c)
    /\ "k" \in DOMAIN lib.a \cap DOMAIN lib.b
    /\ "m" \in DOMAIN lib.c
    /\ lib.c["m"].t = "list"
    /\ DOMAIN Val(lib.ab_c)["k"].v = {"x", "y"}

\* --------------------------------------------------------------------------
\* C37: a run of an empty flow returns normally with RunStatus.steps empty,
\* flows empty, and RunStatus.started_at and ended_at both set with
\* ended_at >= started_at
\* --------------------------------------------------------------------------
C37_EmptyFlowRuns ==
    /\ (steps = << >> /\ pc \notin {"start", "validate"}) => pc \in {"loop", "finally", "done"}
    /\ (steps = << >> /\ pc = "done")
       => /\ IsNone(raised)
          /\ status.steps = << >>
          /\ flows = << >>
          /\ ~ IsNone(status.started_at)
          /\ ~ IsNone(status.ended_at)
          /\ Val(status.ended_at) >= Val(status.started_at)

\* the run of an empty flow has returned, the clock having advanced meanwhile
C37_Witness ==
    /\ steps = << >>
    /\ pc = "done"
    /\ ~ IsNone(status.ended_at)
    /\ Val(status.ended_at) > Val(status.started_at)

\* --------------------------------------------------------------------------
\* C38: the policy the scheduler applies to a direct dependent D of a failed
\* step is D.on_error if set, else runner.on_error if set, else fail,
\* compared case-insensitively; every value other than skip and continue is
\* handled exactly like fail
\* --------------------------------------------------------------------------
\* the policy a writing stands for
policy_named(p) ==
    CASE p \in {"skip", "SKIP", "Skip"} -> "skip"
      [] p \in {"continue", "CONTINUE"} -> "continue"
      [] OTHER -> "fail"

\* D.on_error if set, else runner.on_error if set, else fail
claimed_policy(n) ==
    policy_named(IF name_to_step[n].on_error # "" THEN name_to_step[n].on_error
                 ELSE IF runner_conf.on_error # "" THEN runner_conf.on_error
                 ELSE "fail")

\* the scheduler has processed the failure of f: f left futures, or the run
\* was aborted
failure_processed(f) ==
    /\ f \in DOMAIN task
    /\ task[f].pc = "done"
    /\ ~ task[f].ok
    /\ f \notin futures
    /\ f \notin to_process

C38_DependentPolicy ==
    \A f \in Names : \A d \in dependents_of(f) :
        (failure_processed(f) /\ deps_of(d) = {f})
        => CASE claimed_policy(d) = "skip" ->
                  state_of(d) = "skipped" /\ ~ error_occurred
             [] claimed_policy(d) = "continue" ->
                  ~ error_occurred /\ (pc = "done" => state_of(d) \in {"succeeded", "failed"})
             [] OTHER -> error_occurred /\ state_of(d) = "pending"

\* the failure of a was processed for a dependent whose policy comes from the
\* runner, written in capitals, and the dependent ran
C38_Witness ==
    /\ Names = StepNames
    /\ failure_processed("a")
    /\ name_to_step["c"].on_error = ""
    /\ runner_conf.on_error = "CONTINUE"
    /\ pc = "done"
    /\ state_of("c") = "succeeded"

\* --------------------------------------------------------------------------
\* C39: a step is in state skipped only if some transitive dependency of it
\* is in state failed: no step is skipped in a run in which no step failed
\* --------------------------------------------------------------------------
\* the steps that n depends on, directly or through other steps
ancestors(n) == { f \in Names : n \in descendants(dependents_of(f)) }

C39_SkippedHasFailedAncestor ==
    \A n \in Names :
        state_of(n) = "skipped" => \E f \in ancestors(n) : state_of(f) = "failed"

\* a step is skipped whose only failed ancestor is not a direct dependency
C39_Witness ==
    /\ Names = StepNames
    /\ state_of("c") = "skipped"
    /\ deps_of("c") = {"b"}
    /\ state_of("b") = "skipped"
    /\ state_of("a") = "failed"

\* --------------------------------------------------------------------------
\* C40: for an acyclic configuration with fixed provider outcomes and no
\* abort, the final state of every step and the key set of flows are the same
\* for every interleaving of the workers, every order in which the dependents
\* of a step are iterated and every max_workers >= 1: both are the function
\* final_state of the configuration and of the providers' outcomes
\* --------------------------------------------------------------------------
\* the state a run without abort gives step n, computed from the configuration
\* and the outcomes of the providers alone: n is skipped when a dependency is
\* skipped, or failed while n's policy is skip; else n runs, and fails when its
\* provider cannot be created, its payload does not render against the outputs
\* of its succeeded dependencies, or its provider does not succeed
RECURSIVE final_state(_)
final_state(n) ==
    LET s == name_to_step[n]
        before == [ d \in deps_of(n) |-> final_state(d) ]
        snap == [ d \in { x \in deps_of(n) : before[x] = "succeeded" } |->
                    out_map(name_to_step[d]) ]
    IN  IF \E d \in deps_of(n) : before[d] = "skipped" THEN "skipped"
        ELSE IF /\ \E d \in deps_of(n) : before[d] = "failed"
                /\ policy_of(s) = "skip"
             THEN "skipped"
        ELSE IF \/ ~ create_provider(src_type(s))
                \/ ~ payload_renders(s, snap)
                \/ provider_failed(n)
             THEN "failed"
        ELSE "succeeded"

\* run() returned, without abort, for an acyclic configuration
completed_run == pc = "done" /\ IsNone(raised) /\ ~ error_occurred /\ acyclic

====
